---- MODULE Spec2Model ----
(***************************************************************************)
(* State-machine model of the pump.fun trading bot: the BotManager cycle   *)
(* orchestrator (src/src/services/botManager.ts), the websocket            *)
(* transaction monitor (src/src/services/transactionMonitor.ts), the retry *)
(* helper (withRetry) and the sell/buy submission paths of tokenService.ts.*)
(*                                                                         *)
(* The program is single threaded: every action below is one run of the    *)
(* event loop, i.e. the code between two suspension points (await, timer,  *)
(* subscription callback).  Each pending async call is a record in `tasks` *)
(* or `handlers` whose pc names the await it is suspended at.              *)
(***************************************************************************)
EXTENDS Integers, Sequences, FiniteSets, TLC

\* ---------------------------------------------------------------- bounds
MaxCycles == 2          \* cycles started before restart timers stop firing
MaxSigs == 1            \* distinct transaction signatures on chain
MaxNotifs == 1          \* account-change notifications per monitor
retryAttempts == 2      \* botConfig.monitoring.retryAttempts
maxTransactionAge == 1  \* botConfig.monitoring.maxTransactionAge (seconds)
MaxBalance == 2         \* largest wallet balance the chain reports
MaxCalls == 2           \* calls of one monitor's cancel handle
MaxU64 == 63            \* largest value writeBigUInt64LE accepts
MaxLamports == 5003     \* largest balance of the wallet transferAllSol empties
MaxFunding == 15        \* largest balance of a previous wallet, in tenths of SOL
MaxEvents == 2          \* purchase events the monitor of main delivers

\* -------------------------------------------------------------- constants
DEFAULT_SLIPPAGE_BASIS_POINTS == 500   \* config/constants.ts
minSolOutput == 1                      \* sellTokens: BigInt(1)
fee == 5000                            \* transferAllSol: const fee = 5000

Cycles == 1..MaxCycles
Sigs == 1..MaxSigs
Now == maxTransactionAge + 2   \* Date.now() / 1000 when a callback runs
Clock == {Now}
BlockTimes == 0..Now           \* 0 models a missing blockTime

BotState == {"INITIALIZING", "CREATING_TOKEN", "MONITORING", "SELLING",
             "CALCULATING_PROFIT", "CLEANING_UP", "ERROR"}

VARIABLES
  \* BotManager fields
  state, cycleId, wallet, currentMint, sellTimer, stopMonitoringFn,
  isShuttingDown, someoneBought, isSellingTokens,
  \* runtime: pending async calls, pending timers, process liveness
  tasks, armedTimers, restartTimers, booted, exited,
  \* monitor closures, one per call of monitorTokenTransactionsWebsocket
  isMonitoringActive, processedSignatures, subscription,
  initialCheckTimeoutId, scanTimer, handlers, notifs,
  \* calls of each cancel handle, and calls of
  \* connection.removeAccountChangeListener per subscription
  handleCalls, listenerRemovals,
  \* environment: wallet files on disk, token position of the active wallet,
  \* the wallets whose account holds the funds carried from cycle to cycle
  walletFiles, tokens, funded,
  \* observation of the run: what was entered, submitted, fetched, delivered
  sellLog, sellTx, buyTx, fetched, delivered, skipped,
  \* the changes of status.state made by the last step
  edges,
  \* BotManager.initialBalance, the profit ledger file, the balances
  \* getBalance can resolve to in this run and the answers the file system
  \* can give saveProfitData in this run
  initialBalance, ledger, chain, disk,
  \* the amount handed to the instruction builders of tokenService.ts with
  \* the data they encoded, and the two accounts of transferAllSol with the
  \* transfers it submitted
  instruction, transfer,
  \* the funding of one cycle in lamports, from the balance gate of
  \* initializeWallet to the balance check of createToken; and one run of
  \* the standalone main() of index.ts
  funding, run

vars == <<state, cycleId, wallet, currentMint, sellTimer, stopMonitoringFn,
          isShuttingDown, someoneBought, isSellingTokens,
          tasks, armedTimers, restartTimers, booted, exited,
          isMonitoringActive, processedSignatures, subscription,
          initialCheckTimeoutId, scanTimer, handlers, notifs,
          handleCalls, listenerRemovals,
          walletFiles, tokens, funded,
          sellLog, sellTx, buyTx, fetched, delivered, skipped, edges,
          initialBalance, ledger, chain, disk, instruction, transfer,
          funding, run>>

\* The whole state as one record, so that synchronous calls compose.
World ==
  [state |-> state, cycleId |-> cycleId, wallet |-> wallet,
   currentMint |-> currentMint, sellTimer |-> sellTimer,
   stopMonitoringFn |-> stopMonitoringFn, isShuttingDown |-> isShuttingDown,
   someoneBought |-> someoneBought, isSellingTokens |-> isSellingTokens,
   tasks |-> tasks, armedTimers |-> armedTimers,
   restartTimers |-> restartTimers, booted |-> booted, exited |-> exited,
   isMonitoringActive |-> isMonitoringActive,
   processedSignatures |-> processedSignatures, subscription |-> subscription,
   initialCheckTimeoutId |-> initialCheckTimeoutId, scanTimer |-> scanTimer,
   handlers |-> handlers, notifs |-> notifs,
   handleCalls |-> handleCalls, listenerRemovals |-> listenerRemovals,
   walletFiles |-> walletFiles, tokens |-> tokens, funded |-> funded,
   sellLog |-> sellLog, sellTx |-> sellTx, buyTx |-> buyTx,
   fetched |-> fetched, delivered |-> delivered, skipped |-> skipped,
   edges |-> {},
   initialBalance |-> initialBalance, ledger |-> ledger, chain |-> chain,
   disk |-> disk, instruction |-> instruction, transfer |-> transfer,
   funding |-> funding, run |-> run,
   \* what the awaited getBalance resolves to, how the file system answers
   \* and what createToken requires in this step; set by the action
   balance |-> 0, fs |-> "ok", requiredBalance |-> 0]

\* Once a monitor is cancelled its handlers return at the next look at
\* isMonitoringActive (lines 114, 132, 180, 195) and nothing is fetched for
\* it again.  What can no longer be read is dropped from the state: a handler
\* awaiting the signature list, the unread rest of a handler's list, and the
\* record of what the monitor fetched and delivered, except for the
\* signatures whose transaction is still awaited.
Live(w) ==
  {IF w.isMonitoringActive[h.mon] THEN h ELSE [h EXCEPT !.sigs = <<>>] :
     h \in {g \in w.handlers :
              w.isMonitoringActive[g.mon] \/ g.pc # "getSigs"}}

Finished(w, m) ==
  /\ ~w.isMonitoringActive[m] /\ ~w.scanTimer[m]
  /\ \A h \in Live(w) : h.mon # m

Awaited(w, m, sig) == \E h \in Live(w) : h.mon = m /\ h.cur = sig

Observed(w, f) ==
  [m \in Cycles |->
     [sig \in Sigs |->
        IF w.isMonitoringActive[m] \/ Awaited(w, m, sig) THEN f[m][sig] ELSE 0]]

Apply(w) ==
  /\ state' = w.state /\ cycleId' = w.cycleId /\ wallet' = w.wallet
  /\ currentMint' = w.currentMint /\ sellTimer' = w.sellTimer
  /\ stopMonitoringFn' = w.stopMonitoringFn
  /\ isShuttingDown' = w.isShuttingDown
  /\ someoneBought' = w.someoneBought
  /\ isSellingTokens' = w.isSellingTokens
  /\ tasks' = w.tasks /\ armedTimers' = w.armedTimers
  /\ restartTimers' = w.restartTimers /\ booted' = w.booted
  /\ exited' = w.exited
  /\ isMonitoringActive' = w.isMonitoringActive
  /\ processedSignatures' = w.processedSignatures
  /\ subscription' = w.subscription
  /\ initialCheckTimeoutId' = w.initialCheckTimeoutId
  /\ scanTimer' = w.scanTimer
  /\ handlers' = Live(w)
  /\ notifs' = [m \in Cycles |-> IF Finished(w, m) /\ m < w.cycleId
                                   THEN 0 ELSE w.notifs[m]]
  /\ handleCalls' = w.handleCalls
  /\ listenerRemovals' = w.listenerRemovals
  /\ walletFiles' = w.walletFiles /\ tokens' = w.tokens
  /\ funded' = w.funded
  /\ sellLog' = w.sellLog /\ sellTx' = w.sellTx /\ buyTx' = w.buyTx
  /\ fetched' = Observed(w, w.fetched)
  /\ delivered' = Observed(w, w.delivered)
  /\ skipped' = Observed(w, w.skipped)
  /\ edges' = w.edges
  /\ initialBalance' = w.initialBalance /\ ledger' = w.ledger
  /\ chain' = w.chain /\ disk' = w.disk
  /\ instruction' = w.instruction /\ transfer' = w.transfer
  /\ funding' = w.funding /\ run' = w.run

\* A pending async call.  fn is the function withRetry re-invokes.
Task(kind, pc, fn, attempt, reason, cyc) ==
  [kind |-> kind, pc |-> pc, fn |-> fn, attempt |-> attempt,
   reason |-> reason, cyc |-> cyc]

SetPc(w, t, pc) == [w EXCEPT !.tasks = (@ \ {t}) \cup {[t EXCEPT !.pc = pc]}]
EndTask(w, t) == [w EXCEPT !.tasks = @ \ {t}]

\* ------------------------------------------------------------ BotManager

updateState(w, s) ==
  [w EXCEPT !.state = s,
            !.edges = IF w.state = s THEN @ ELSE @ \cup {<<w.state, s>>}]

\* The cancel handle without its guard against repeated calls.
stopMonitoring_Unguarded(w, m) ==
  [w EXCEPT !.handleCalls[m] = @ + 1,
            !.isMonitoringActive[m] = FALSE,
            !.subscription[m] = FALSE,
            !.listenerRemovals[m] = @ + 1,
            !.scanTimer[m] = IF w.initialCheckTimeoutId[m] THEN FALSE ELSE @,
            !.initialCheckTimeoutId[m] = FALSE,
            !.processedSignatures[m] = {}]

\* The cancel handle returned by monitorTokenTransactionsWebsocket.
stopMonitoring(w, m) ==
  IF ~w.isMonitoringActive[m] THEN [w EXCEPT !.handleCalls[m] = @ + 1]
  ELSE [w EXCEPT !.handleCalls[m] = @ + 1,
                 !.isMonitoringActive[m] = FALSE,
                 !.subscription[m] = FALSE,
                 !.listenerRemovals[m] = @ + 1,
                 !.scanTimer[m] = IF w.initialCheckTimeoutId[m] THEN FALSE ELSE @,
                 !.initialCheckTimeoutId[m] = FALSE,
                 !.processedSignatures[m] = {}]

\* clearSellTimer without clearTimeout: the timer stays armed.
clearSellTimer_Kept(w) == w

clearSellTimer(w) ==
  IF w.sellTimer # 0
    THEN [w EXCEPT !.armedTimers = @ \ {w.sellTimer}, !.sellTimer = 0]
    ELSE w

\* cleanup that cancels the timer and leaves the monitor subscribed.
cleanup_KeepsMonitor(w) == clearSellTimer(updateState(w, "CLEANING_UP"))

cleanup(w) ==
  LET w1 == updateState(w, "CLEANING_UP")
      w2 == clearSellTimer(w1)
  IN IF w2.stopMonitoringFn # 0
       THEN [stopMonitoring(w2, w2.stopMonitoringFn) EXCEPT !.stopMonitoringFn = 0]
       ELSE w2

\* Entries of sellLog: a call of sellAllTokens that ran its body, and a call
\* that returned at the guard (the first such call of a cycle is recorded).
Entered(reason) == [reason |-> reason, entered |-> TRUE]
Refused(reason) == [reason |-> reason, entered |-> FALSE]

LogRefused(w, reason) ==
  IF \E i \in DOMAIN w.sellLog : ~w.sellLog[i].entered THEN w
  ELSE [w EXCEPT !.sellLog = Append(@, Refused(reason))]

\* The guard of sellAllTokens without the look at the latch.
latched_NoLatch(w) == w.wallet = 0 \/ w.currentMint = 0

\* The guard of sellAllTokens (line 278).
latched(w) == w.isSellingTokens \/ w.wallet = 0 \/ w.currentMint = 0

\* sellAllTokens up to its first await (getBalance, line 294).
sellAllTokens(w, reason) ==
  IF latched(w) THEN LogRefused(w, reason)
  ELSE LET w1 == updateState(w, "SELLING")
           w2 == [w1 EXCEPT !.isSellingTokens = TRUE, !.someoneBought = TRUE]
           w3 == clearSellTimer(w2)
       IN [w3 EXCEPT
             !.tasks = @ \cup {Task("sell", "sa_balanceBefore", "none", 1,
                                    reason, w.cycleId)},
             !.sellLog = Append(@, Entered(reason))]

\* handleSellTimeout that starts nothing.
handleSellTimeout_Ignored(w) == w

handleSellTimeout(w) ==
  IF ~w.someoneBought /\ ~w.isSellingTokens
    THEN sellAllTokens(w, "timeout")
    ELSE LogRefused(w, "timeout")

\* The callback startMonitoring hands to the monitor (lines 214-229).
TransactionAge(currentTime, timestamp) == currentTime - timestamp

\* The callback without the age check.
onTransaction_AnyAge(w, timestamp, currentTime) ==
  sellAllTokens(w, "external_buy")

onTransaction(w, timestamp, currentTime) ==
  IF TransactionAge(currentTime, timestamp) > maxTransactionAge THEN w
  ELSE sellAllTokens(w, "external_buy")

\* startMonitoring runs without suspension: latch reset, timer, monitor.
startMonitoring(w) ==
  LET m == w.cycleId
  IN [w EXCEPT !.someoneBought = FALSE,
               !.isSellingTokens = FALSE,
               !.sellTimer = m,
               !.armedTimers = @ \cup {m},
               !.stopMonitoringFn = m,
               !.isMonitoringActive[m] = TRUE,
               !.processedSignatures[m] = {},
               !.subscription[m] = TRUE,
               !.initialCheckTimeoutId[m] = TRUE,
               !.scanTimer[m] = TRUE]

\* The catch block of startCycle up to `await this.cleanup()`.
startCycleCatch(w, t) ==
  SetPc(cleanup(updateState(w, "ERROR")), t, "sc_afterCleanup")

\* The catch block of sellAllTokens: cleanup, and nothing after it.
sellAllTokensCatch(w, t) == EndTask(cleanup(w), t)

\* An error thrown out of the awaited call of task t.
Throw(w, t) ==
  IF t.kind = "cycle" THEN startCycleCatch(w, t) ELSE sellAllTokensCatch(w, t)

\* withRetry's catch with one attempt too many.
withRetryCatch_ExtraAttempt(w, t) ==
  IF t.attempt = retryAttempts + 1 THEN Throw(w, t)
  ELSE SetPc(w, t, "retrySleep")

\* withRetry's catch: rethrow after the last attempt, otherwise sleep.
withRetryCatch(w, t) ==
  IF t.attempt = retryAttempts THEN Throw(w, t)
  ELSE SetPc(w, t, "retrySleep")

\* --------------------------------------------------------------- startCycle

\* findPreviousWallets: the wallet files other than the current one, newest
\* first.  A wallet file is written once, when its wallet is created, so the
\* order of modification times is the order of the wallet numbers.
RECURSIVE findPreviousWallets(_, _)
findPreviousWallets(files, current) ==
  LET others == files \ {current}
      newest == CHOOSE x \in others : \A y \in others : y <= x
  IN IF others = {} THEN <<>>
     ELSE <<newest>> \o findPreviousWallets(others \ {newest}, current)

\* startCycle whose cycle id is not taken from the logger's counter.
startCycle_SameId(w) ==
  IF w.isShuttingDown THEN w
  ELSE LET c == IF w.cycleId = 0 THEN 1 ELSE w.cycleId
           t == Task("cycle", "iw_prevBalance", "getBalance", 1, "none", c)
           w1 == [updateState(w, "INITIALIZING") EXCEPT
                    !.cycleId = c, !.sellLog = <<>>, !.sellTx = 0, !.buyTx = 0,
                    !.wallet = c, !.walletFiles = @ \cup {c}, !.tokens = 0,
                    !.tasks = @ \cup {t}]
       IN IF findPreviousWallets(w1.walletFiles, c) = <<>>
            THEN startCycleCatch(w1, t) ELSE w1

\* startCycle without the shutdown guard.
startCycle_Unguarded(w) ==
  LET c == w.cycleId + 1
      t == Task("cycle", "iw_prevBalance", "getBalance", 1, "none", c)
      w1 == [updateState(w, "INITIALIZING") EXCEPT
               !.cycleId = c, !.sellLog = <<>>, !.sellTx = 0, !.buyTx = 0,
               !.wallet = c, !.walletFiles = @ \cup {c}, !.tokens = 0,
               !.tasks = @ \cup {t}]
  IN IF findPreviousWallets(w1.walletFiles, c) = <<>>
            THEN startCycleCatch(w1, t) ELSE w1

\* startCycle up to the first await of initializeWallet: the shutdown guard,
\* INITIALIZING, the logger's cycle counter, a fresh wallet saved to disk and
\* the search for an earlier wallet file.
startCycle(w) ==
  IF w.isShuttingDown THEN w
  ELSE LET c == w.cycleId + 1
           t == Task("cycle", "iw_prevBalance", "getBalance", 1, "none", c)
           w1 == [updateState(w, "INITIALIZING") EXCEPT
                    !.cycleId = c, !.sellLog = <<>>, !.sellTx = 0, !.buyTx = 0,
                    !.wallet = c, !.walletFiles = @ \cup {c}, !.tokens = 0,
                    !.tasks = @ \cup {t}]
       IN IF findPreviousWallets(w1.walletFiles, c) = <<>>
            THEN startCycleCatch(w1, t) ELSE w1

\* First suspension of each function withRetry wraps.
FirstPc(fn) ==
  CASE fn = "getBalance" -> "iw_prevBalance"
    [] fn = "transferAllSol" -> "iw_transfer"
    [] fn = "createToken" -> "ct_preflight"
    [] fn = "sellTokens" -> "st_accountInfo"

\* withRetry whose loop does not count its attempts.
withRetryNext_Uncounted(w, t) ==
  [w EXCEPT !.tasks = (@ \ {t}) \cup {[t EXCEPT !.pc = FirstPc(t.fn)]}]

\* withRetry after `await sleep(delay)`: the next attempt calls fn again.
withRetryNext(w, t) ==
  [w EXCEPT !.tasks = (@ \ {t}) \cup
     {[t EXCEPT !.pc = FirstPc(t.fn), !.attempt = t.attempt + 1]}]

\* Begin withRetry(fn) in task t.
withRetryCall(w, t, fn) ==
  [w EXCEPT !.tasks = (@ \ {t}) \cup
     {[t EXCEPT !.pc = FirstPc(fn), !.fn = fn, !.attempt = 1]}]

\* this.previousWallet of the cycle of task t: previousWallets[0].
previousWallet(w, t) == Head(findPreviousWallets(w.walletFiles, t.cyc))

\* transferAllSol once its transaction is submitted: whatever the source
\* holds moves to the destination.
transferAllSol(w, from, to) ==
  [w EXCEPT !.funded = (@ \ {from}) \cup {to}]

\* calculateMinRequiredBalance(): minSolAmount, its platform fee and the fee
\* buffer; balances are counted in units of this threshold.
calculateMinRequiredBalance == 1

\* initializeWallet that transfers whatever the previous wallet holds.
initializeWallet_Unfunded(w, t, r) ==
  CASE t.pc = "iw_prevBalance" ->
         IF r = "throw" THEN withRetryCatch(w, t)
         ELSE withRetryCall(w, t, "transferAllSol")
    [] t.pc = "iw_transfer" ->
         IF r = "throw" THEN withRetryCatch(w, t)
         ELSE SetPc(transferAllSol(w, previousWallet(w, t), t.cyc),
                    t, "iw_settle")
    [] t.pc = "iw_settle" ->
         IF r = "throw" THEN Throw(w, t)
         ELSE SetPc(updateState([w EXCEPT !.initialBalance = w.balance],
                                "CREATING_TOKEN"), t, "cn_prepare")

\* initializeWallet resumed at the await of t.pc with outcome r: "ok" or
\* "throw" (the awaited call rejects).  At iw_prevBalance the previous
\* wallet's balance resolves to w.balance and is compared with the funding
\* threshold.  iw_transfer stands for the awaits of transferAllSol up to
\* sendRawTransaction, which moves the funds.  iw_settle stands for the three awaits of lines
\* 132-145 (confirmTransaction, getBalance, getBalance): each resolves to the
\* next or rejects into startCycle's catch; the last one resolves to
\* w.balance, which becomes initialBalance.
initializeWallet(w, t, r) ==
  CASE t.pc = "iw_prevBalance" ->
         IF r = "throw" THEN withRetryCatch(w, t)
         ELSE IF w.balance >= calculateMinRequiredBalance
           THEN withRetryCall(w, t, "transferAllSol")
         ELSE Throw(w, t)
    [] t.pc = "iw_transfer" ->
         IF r = "throw" THEN withRetryCatch(w, t)
         ELSE SetPc(transferAllSol(w, previousWallet(w, t), t.cyc),
                    t, "iw_settle")
    [] t.pc = "iw_settle" ->
         IF r = "throw" THEN Throw(w, t)
         ELSE SetPc(updateState([w EXCEPT !.initialBalance = w.balance],
                                "CREATING_TOKEN"), t, "cn_prepare")

\* createNewToken resumed: cn_prepare stands for its awaits of metadata,
\* image and upload (lines 159-172); then withRetry(createToken).
createNewToken(w, t, r) ==
  IF r = "throw" THEN Throw(w, t)
  ELSE withRetryCall(w, t, "createToken")

\* createToken resolved in createNewToken: record the mint, then the rest
\* of startCycle: MONITORING and startMonitoring, after which the call ends.
createNewTokenDone(w, t) ==
  LET w1 == updateState([w EXCEPT !.currentMint = t.cyc], "MONITORING")
  IN IF w1.wallet = 0 \/ w1.currentMint = 0 THEN Throw(w1, t)
     ELSE EndTask(startMonitoring(w1), t)

\* requiredBalance of createToken: rent exemption, a purchase amount drawn
\* between the configured minimum and maximum, its platform fee and the fee
\* buffer; never under the funding threshold of initializeWallet.
RequiredBalances == calculateMinRequiredBalance .. MaxBalance

\* createToken without its balance check.
createToken_NoFundsCheck(w, t, r) ==
  CASE t.pc = "ct_preflight" ->
         IF r \in {"throw", "exists"} THEN withRetryCatch(w, t)
         ELSE SetPc(w, t, "ct_send")
    [] t.pc = "ct_send" ->
         IF r = "throw" THEN withRetryCatch(w, t) ELSE SetPc(w, t, "ct_confirm")
    [] t.pc = "ct_confirm" ->
         IF r = "ok" THEN createNewTokenDone([w EXCEPT !.tokens = 1], t)
         ELSE IF r = "landed" THEN withRetryCatch([w EXCEPT !.tokens = 1], t)
         ELSE withRetryCatch(w, t)

\* createToken resumed at the await of t.pc.  ct_preflight stands for the
\* awaits before anything is signed (existing accounts, rent and balance,
\* block hash): the payer's balance resolves to w.balance and is compared
\* with w.requiredBalance.  ct_send is the await of sendRawTransaction.
\* Outcomes: "ok", "throw", "exists" (an account of the mint already
\* exists), "err" (confirmed with an execution error), "landed"
\* (confirmation rejects although the transaction landed).
createToken(w, t, r) ==
  CASE t.pc = "ct_preflight" ->
         IF r \in {"throw", "exists"} THEN withRetryCatch(w, t)
         ELSE IF w.balance < w.requiredBalance THEN withRetryCatch(w, t)
         ELSE SetPc(w, t, "ct_send")
    [] t.pc = "ct_send" ->
         IF r = "throw" THEN withRetryCatch(w, t) ELSE SetPc(w, t, "ct_confirm")
    [] t.pc = "ct_confirm" ->
         IF r = "ok" THEN createNewTokenDone([w EXCEPT !.tokens = 1], t)
         ELSE IF r = "landed" THEN withRetryCatch([w EXCEPT !.tokens = 1], t)
         ELSE withRetryCatch(w, t)

\* The tail of startCycle's catch: restart after 5 s unless shutting down.
startCycleRestart(w, t) ==
  EndTask(IF ~w.isShuttingDown
            THEN [w EXCEPT !.restartTimers = @ + 1]
            ELSE w, t)

Outcomes(pc) ==
  CASE pc = "ct_preflight" -> {"ok", "throw", "exists"}
    [] pc = "ct_confirm" -> {"ok", "throw", "err", "landed"}
    [] pc = "st_accountInfo" -> {"ok", "throw", "none"}
    [] pc = "st_confirm" -> {"ok", "throw", "err", "landed"}
    [] pc = "bt_confirm" -> {"ok", "throw", "err", "landed"}
    [] OTHER -> {"ok", "throw"}

IwPcs == {"iw_prevBalance", "iw_transfer", "iw_settle"}
CnPcs == {"cn_prepare"}
CtPcs == {"ct_preflight", "ct_send", "ct_confirm"}

\* ------------------------------------------------------------ sellAllTokens

\* calculateProfit up to its first await.
calculateProfitCall(w, t) ==
  SetPc(updateState(w, "CALCULATING_PROFIT"), t, "cp_balance")

\* sellAllTokens resumed at the await of t.pc.  getTokenBalance swallows a
\* failed query and returns 0, so outcome "throw" there reads as balance 0.
\* sa_balanceAfter stands for the 3 s sleep and the balance query after it.
\* sellAllTokens that sells whatever the balance query says.
sellAllTokensResume_SellsAnyway(w, t, r) ==
  CASE t.pc = "sa_balanceBefore" ->
         IF r = "throw" THEN Throw(w, t) ELSE SetPc(w, t, "sa_tokenBalance")
    [] t.pc = "sa_tokenBalance" -> withRetryCall(w, t, "sellTokens")
    [] t.pc = "sa_balanceAfter" ->
         IF r = "throw" THEN Throw(w, t) ELSE calculateProfitCall(w, t)

sellAllTokensResume(w, t, r) ==
  CASE t.pc = "sa_balanceBefore" ->
         IF r = "throw" THEN Throw(w, t) ELSE SetPc(w, t, "sa_tokenBalance")
    [] t.pc = "sa_tokenBalance" ->
         LET tokenBalance == IF r = "ok" THEN w.tokens ELSE 0
         IN IF tokenBalance > 0 THEN withRetryCall(w, t, "sellTokens")
            ELSE calculateProfitCall(w, t)
    [] t.pc = "sa_balanceAfter" ->
         IF r = "throw" THEN Throw(w, t) ELSE calculateProfitCall(w, t)

\* ------------------------------------------------------------ profit ledger

\* The ledger file: absent, or {totalProfit, cycles}.
NoLedger == [exists |-> FALSE, totalProfit |-> 0, cycles |-> <<>>]

\* profitData = { totalProfit: 0, cycles: [] }
FreshLedger == [exists |-> TRUE, totalProfit |-> 0, cycles |-> <<>>]

\* x || 0
OrZero(x) == IF x = 0 THEN 0 ELSE x

CycleData(id, profit, tokenAddress, initial, final) ==
  [cycleId |-> id, profit |-> profit, tokenAddress |-> tokenAddress,
   initialBalance |-> OrZero(initial), finalBalance |-> OrZero(final)]

\* How the file system answers one call of saveProfitData: "ok", "readFail"
\* (reading or parsing the existing file throws) or "writeFail" (creating
\* the directory or writing the file throws; the file stays as it was).
FsOutcomes == {"ok", "readFail", "writeFail"}

\* saveProfitData that stores the profit as the total.
saveProfitData_TotalOverwritten(file, id, profit, tokenAddress, initial, final, fs) ==
  LET profitData == IF file.exists /\ fs # "readFail" THEN file
                    ELSE FreshLedger
  IN IF fs = "writeFail" THEN file
     ELSE [exists |-> TRUE,
           totalProfit |-> profit,
           cycles |-> Append(profitData.cycles,
                             CycleData(id, profit, tokenAddress, initial, final))]

\* saveProfitData: load the file or start fresh, add to the total, push the
\* entry, write the whole file.  Its errors are caught and logged.
saveProfitData(file, id, profit, tokenAddress, initial, final, fs) ==
  LET profitData == IF file.exists /\ fs # "readFail" THEN file
                    ELSE FreshLedger
  IN IF fs = "writeFail" THEN file
     ELSE [exists |-> TRUE,
           totalProfit |-> profitData.totalProfit + profit,
           cycles |-> Append(profitData.cycles,
                             CycleData(id, profit, tokenAddress, initial, final))]

\* getTotalProfit
getTotalProfit(file) ==
  IF file.exists
    THEN [totalProfit |-> OrZero(file.totalProfit), cycleCount |-> Len(file.cycles)]
    ELSE [totalProfit |-> 0, cycleCount |-> 0]

\* The subtraction the other way round.
Profit_Swapped(finalBalance, initial) == initial - finalBalance

\* const profit = finalBalance - this.initialBalance
Profit(finalBalance, initial) == finalBalance - initial

\* Math.abs(profit) > this.initialBalance * 0.5
Suspicious(profit, initial) ==
  2 * (IF profit < 0 THEN -profit ELSE profit) > initial

\* sellAllTokens going on after calculateProfit without cleanup.
calculateProfit_NoCleanup(w, t, r) == SetPc(w, t, "sa_afterCleanup")

\* calculateProfit that gives up on a suspicious profit.
calculateProfit_SuspiciousFatal(w, t, r) ==
  LET finalBalance == w.balance
      profit == Profit(finalBalance, w.initialBalance)
      w1 == IF r = "throw" \/ Suspicious(profit, w.initialBalance) THEN w
            ELSE [w EXCEPT !.ledger =
                    saveProfitData(w.ledger, w.cycleId, profit, w.currentMint,
                                   w.initialBalance, finalBalance, w.fs)]
  IN SetPc(cleanup(w1), t, "sa_afterCleanup")

\* calculateProfit resumed (cp_balance stands for its 2 s sleep and balance
\* query): the balance w.balance gives the profit, which is saved to the
\* ledger.  It catches its own errors, so either outcome returns to
\* sellAllTokens, which runs cleanup.
calculateProfit(w, t, r) ==
  LET finalBalance == w.balance
      profit == Profit(finalBalance, w.initialBalance)
      w1 == IF r = "throw" THEN w
            ELSE [w EXCEPT !.ledger =
                    saveProfitData(w.ledger, w.cycleId, profit, w.currentMint,
                                   w.initialBalance, finalBalance, w.fs)]
  IN SetPc(cleanup(w1), t, "sa_afterCleanup")

\* The tail of sellAllTokens' try block: restart after 5 s unless shutting down.
sellAllTokensRestart(w, t) ==
  EndTask(IF ~w.isShuttingDown
            THEN [w EXCEPT !.restartTimers = @ + 1]
            ELSE w, t)

\* sellTokens resumed at the await of t.pc.  Without a token account, or with
\* a zero amount, it calls buyTokens.  st_send stands for the block hash query
\* and sendRawTransaction.  The confirmation result is not inspected, so "err"
\* returns the signature like "ok".
sellTokens(w, t, r) ==
  CASE t.pc = "st_accountInfo" ->
         IF r = "throw" THEN withRetryCatch(w, t)
         ELSE IF r = "none" THEN SetPc(w, t, "bt_send")
         ELSE SetPc(w, t, "st_tokenBalance")
    [] t.pc = "st_tokenBalance" ->
         IF r = "throw" THEN withRetryCatch(w, t)
         ELSE IF w.tokens <= 0 THEN SetPc(w, t, "bt_send")
         ELSE SetPc(w, t, "st_send")
    [] t.pc = "st_send" ->
         IF r = "throw" THEN withRetryCatch(w, t)
         ELSE SetPc([w EXCEPT !.sellTx = @ + 1], t, "st_confirm")
    [] t.pc = "st_confirm" ->
         IF r = "ok" THEN SetPc([w EXCEPT !.tokens = 0], t, "sa_balanceAfter")
         ELSE IF r = "err" THEN SetPc(w, t, "sa_balanceAfter")
         ELSE IF r = "landed" THEN withRetryCatch([w EXCEPT !.tokens = 0], t)
         ELSE withRetryCatch(w, t)

\* buyTokens as called from sellTokens, resumed at the await of t.pc.  bt_send
\* stands for the account query (its error is swallowed, lines 851-853), the
\* block hash query and sendRawTransaction.
buyTokens(w, t, r) ==
  CASE t.pc = "bt_send" ->
         IF r = "throw" THEN withRetryCatch(w, t)
         ELSE SetPc([w EXCEPT !.buyTx = @ + 1], t, "bt_confirm")
    [] t.pc = "bt_confirm" ->
         IF r = "ok" THEN SetPc([w EXCEPT !.tokens = 1], t, "sa_balanceAfter")
         ELSE IF r = "err" THEN SetPc(w, t, "sa_balanceAfter")
         ELSE IF r = "landed" THEN withRetryCatch([w EXCEPT !.tokens = 1], t)
         ELSE withRetryCatch(w, t)

SaPcs == {"sa_balanceBefore", "sa_tokenBalance", "sa_balanceAfter"}
CpPcs == {"cp_balance"}
StPcs == {"st_accountInfo", "st_tokenBalance", "st_send", "st_confirm"}
BtPcs == {"bt_send", "bt_confirm"}

\* ------------------------------------------------------------------ shutdown

\* shutdown that sets the flag and exits without cleanup.
shutdown_NoCleanup(w) ==
  IF w.isShuttingDown THEN w
  ELSE [w EXCEPT !.isShuttingDown = TRUE,
                 !.tasks = @ \cup {Task("shutdown", "sd_afterCleanup", "none",
                                         1, "none", w.cycleId)}]

\* shutdown up to `await this.cleanup()`.
shutdown(w) ==
  IF w.isShuttingDown THEN w
  ELSE LET w1 == cleanup([w EXCEPT !.isShuttingDown = TRUE])
       IN [w1 EXCEPT !.tasks = @ \cup
             {Task("shutdown", "sd_afterCleanup", "none", 1, "none", w.cycleId)}]

\* shutdown whose cleanup throws: a listener of the 'stateChange' event that
\* updateState emits (line 462) throws before the timer and the monitor are
\* cancelled, or a listener of 'cycleEnd' (line 437) throws after.  Nothing
\* in shutdown catches it, so process.exit(0) of line 453 is not reached and
\* the promise the signal handler dropped (lines 49-50) is rejected: the
\* runtime ends the process, or an 'unhandledRejection' handler such as the
\* one of index.ts 406-408 logs it and the process lives on.
shutdownThrows(w, event, handled) ==
  IF w.isShuttingDown THEN w
  ELSE LET w1 == [w EXCEPT !.isShuttingDown = TRUE]
           w2 == IF event = "stateChange" THEN updateState(w1, "CLEANING_UP")
                 ELSE cleanup(w1)
       IN IF handled THEN w2 ELSE [w2 EXCEPT !.exited = TRUE]

\* process.exit(0): nothing runs afterwards.
processExit(w, t) == [EndTask(w, t) EXCEPT !.exited = TRUE]

\* ------------------------------------------------------- transaction monitor

\* What getTransaction can resolve to.  A missing transaction (null) has no
\* fields; blockTime 0 is a missing blockTime.  err is meta.err, the
\* execution error of the settlement; tokenDelta says that the token
\* balances of the mint grew for some account (meta.postTokenBalances
\* against meta.preTokenBalances).  Fields that isBuyTransaction never
\* reaches for a transaction are left FALSE, and a transaction that is not
\* delivered carries no blockTime, so each class is drawn once.  Of the
\* transactions that get past its early returns there are three kinds: a
\* purchase on the platform (discriminator and token delta), a purchase
\* that failed in execution, and a transaction that only names the mint.
NoTx ==
  [found |-> FALSE, mintInvolved |-> FALSE, buyerSelf |-> FALSE,
   hasInstructions |-> FALSE, buyDisc |-> FALSE, err |-> FALSE,
   tokenDelta |-> FALSE, blockTime |-> 0]

\* null; a transaction without the mint; our own transaction; one without
\* instructions; and the three kinds that reach the discriminator loop.
TxResults ==
  {NoTx,
   [NoTx EXCEPT !.found = TRUE],
   [NoTx EXCEPT !.found = TRUE, !.mintInvolved = TRUE, !.buyerSelf = TRUE],
   [NoTx EXCEPT !.found = TRUE, !.mintInvolved = TRUE]}
  \cup
  {[found |-> TRUE, mintInvolved |-> TRUE, buyerSelf |-> FALSE,
    hasInstructions |-> TRUE, buyDisc |-> purchase, tokenDelta |-> purchase,
    err |-> purchase /\ failed, blockTime |-> blockTime] :
     purchase \in BOOLEAN, failed \in BOOLEAN, blockTime \in BlockTimes}

\* isBuyTransaction that lets our own transactions through.
isBuyTransaction_SelfIncluded(tx) ==
  IF ~tx.found THEN FALSE
  ELSE IF ~tx.mintInvolved THEN FALSE
  ELSE TRUE

\* isBuyTransaction: the mint is among the account keys, the first key is not
\* our wallet, there is an instruction; then a buy whether or not an
\* instruction carries the buy discriminator (the fall-through at line 80).
isBuyTransaction(tx) ==
  IF ~tx.found THEN FALSE
  ELSE IF ~tx.mintInvolved THEN FALSE
  ELSE IF tx.buyerSelf THEN FALSE
  ELSE IF ~tx.hasInstructions THEN FALSE
  ELSE IF tx.buyDisc THEN TRUE
  ELSE TRUE

\* timestamp: transaction.blockTime || Date.now() / 1000
EventTimestamp(tx, now) == IF tx.blockTime # 0 THEN tx.blockTime ELSE now

\* getSignaturesForAddress: a list without repetition.
SigLists ==
  ({<<>>} \cup {<<a>> : a \in Sigs} \cup {<<a, b>> : a, b \in Sigs})
    \ {<<a, a>> : a \in Sigs}

Handler(m, id, kind) ==
  [mon |-> m, id |-> id, kind |-> kind, pc |-> "getSigs", sigs |-> <<>>,
   cur |-> 0]

\* A handler that returns early (inside its try block).
handlerReturn(w, h) == [w EXCEPT !.handlers = @ \ {h}]

\* A handler that runs to its end; the initial check then forgets its timer id.
handlerDone(w, h) ==
  [w EXCEPT !.handlers = @ \ {h},
            !.initialCheckTimeoutId[h.mon] = IF h.kind = "scan" THEN FALSE ELSE @]

\* A deduplication set that never reports a signature.
alreadyProcessed_Never(w, m, sig) == FALSE

\* processedSignatures.has(sigInfo.signature)
alreadyProcessed(w, m, sig) == sig \in w.processedSignatures[m]

\* The for loop over the signatures, run up to its next await: skip what was
\* processed, mark the next signature and ask for its transaction.
RECURSIVE processSignatures(_, _, _)
processSignatures(w, h, list) ==
  IF list = <<>> THEN handlerDone(w, h)
  ELSE IF ~w.isMonitoringActive[h.mon] THEN handlerReturn(w, h)
  ELSE IF alreadyProcessed(w, h.mon, Head(list))
    THEN processSignatures([w EXCEPT !.skipped[h.mon][Head(list)] = 1],
                           h, Tail(list))
  ELSE [w EXCEPT
          !.processedSignatures[h.mon] = @ \cup {Head(list)},
          !.fetched[h.mon][Head(list)] = @ + 1,
          !.handlers = (@ \ {h}) \cup
             {[h EXCEPT !.pc = "getTx", !.cur = Head(list), !.sigs = Tail(list)]}]

\* A handler resumed with the signature list (r = "ok") or a rejection.
onSignatures(w, h, r, list) ==
  IF r = "throw" THEN handlerDone(w, h)
  ELSE IF list = <<>> THEN handlerReturn(w, h)
  ELSE processSignatures(w, h, list)

\* Whether the handler invokes the callback for tx.
delivers(tx) == isBuyTransaction(tx)

\* A handler resumed with the transaction of h.cur: classify, invoke the
\* callback for a buy, and go on with the loop.
onTransactionDetails(w, h, r, tx, now) ==
  IF r = "throw" THEN handlerDone(w, h)
  ELSE IF ~tx.found THEN processSignatures(w, h, h.sigs)
  ELSE IF delivers(tx)
    THEN processSignatures(
           onTransaction([w EXCEPT !.delivered[h.mon][h.cur] = @ + 1],
                         EventTimestamp(tx, now), now),
           h, h.sigs)
  ELSE processSignatures(w, h, h.sigs)

\* The account-change listener up to its first await.
onAccountChange(w, m) ==
  LET n == w.notifs[m] + 1
      w1 == [w EXCEPT !.notifs[m] = n]
  IN IF ~w.isMonitoringActive[m] THEN w1
     ELSE [w1 EXCEPT !.handlers = @ \cup {Handler(m, n, "ws")}]

\* The 500 ms initial check up to its first await.
initialCheck(w, m) ==
  LET w1 == [w EXCEPT !.scanTimer[m] = FALSE]
  IN IF ~w.isMonitoringActive[m] THEN w1
     ELSE [w1 EXCEPT !.handlers = @ \cup {Handler(m, 0, "scan")}]

\* ------------------------------------------- instruction data, transfers
\* The input of an instruction builder of tokenService.ts before it has run:
\* buyAmountSol of createToken and buyTokens, the token balance of
\* sellTokens.
Unbuilt(amount) ==
  [amount |-> amount, fn |-> "none", data |-> <<>>, error |-> FALSE]

slippageBasisPoints == DEFAULT_SLIPPAGE_BASIS_POINTS

\* Lines 696 and 832.  The operands are non-negative BigInts, whose division
\* truncates.
maxSolCost_Discounted(buyAmountSol) ==
  buyAmountSol - (buyAmountSol * slippageBasisPoints) \div 10000

maxSolCost(buyAmountSol) ==
  buyAmountSol + (buyAmountSol * slippageBasisPoints) \div 10000

\* The instruction data: the discriminator, then the amount and the bound,
\* each written by Buffer.writeBigUInt64LE, which throws a RangeError for a
\* value outside 0 .. 2^64 - 1 (0 .. MaxU64 here).
writeData(i, fn, discriminator, bound) ==
  IF i.amount \in 0 .. MaxU64 /\ bound \in 0 .. MaxU64
    THEN [i EXCEPT !.fn = fn, !.data = <<discriminator, i.amount, bound>>]
    ELSE [i EXCEPT !.fn = fn, !.error = TRUE]

\* The buy instruction of createToken (lines 689-707) and of buyTokens
\* (lines 828-832, 866-876).
buyData(i, fn) == writeData(i, fn, "buy", maxSolCost(i.amount))

\* The sell instruction of sellTokens (lines 960-993).
sellData(i) == writeData(i, "sellTokens", "sell", minSolOutput)

\* The two accounts of a call of transferAllSol, in lamports, before it.
Unsent(from, to) ==
  [from |-> from, to |-> to, sent |-> <<>>, result |-> "none"]

\* wallet.ts line 177.
transferAmount_NoReserve(balance) == balance

transferAmount(balance) == balance - fee

\* transferAllSol with the numbers of wallet.ts 165-207: x holds the two
\* accounts, r is "throw" when getBalance, getLatestBlockhash or
\* sendRawTransaction rejects.  The catch of line 203 rethrows.
transferLamports(x, r) ==
  IF r = "throw" THEN [x EXCEPT !.result = "rpc error"]
  ELSE IF transferAmount(x.from) <= 0
    THEN [x EXCEPT !.result = "Insufficient balance"]
  ELSE [x EXCEPT !.sent = Append(@, transferAmount(x.from)),
                 !.result = "signature"]

\* The cluster executes the oldest submitted transfer: the source pays the
\* lamports and the signature fee that line 176 reserves.
landed(x) ==
  [x EXCEPT !.from = @ - (Head(x.sent) + fee), !.to = @ + Head(x.sent),
            !.sent = Tail(@)]

\* ------------------------------------------------------- funding, in lamports
LAMPORTS_PER_SOL == 1000000000

\* botConfig.trading with its defaults (botConfig.ts 30 and 34): 0.1 SOL and
\* 0.01 SOL.  PUMPFUN_FEE_PERCENTAGE is 0.01.
minSolAmount == LAMPORTS_PER_SOL \div 10
transactionFeeBuffer == LAMPORTS_PER_SOL \div 100
pumpfunFee(solAmount) == solAmount \div 100

\* constants.ts 55-57: 0.8 SOL, 1.1 SOL and 0.001 SOL.
MIN_SOL_AMOUNT_TO_BUY == 8 * (LAMPORTS_PER_SOL \div 10)
MAX_SOL_AMOUNT_TO_BUY == 11 * (LAMPORTS_PER_SOL \div 10)
TRANSACTION_FEE_BUFFER == LAMPORTS_PER_SOL \div 1000

\* calculateMinRequiredBalance with the numbers of botManager.ts 477-480.
minRequiredBalance ==
  minSolAmount + pumpfunFee(minSolAmount) + transactionFeeBuffer

\* requiredBalance of createToken, lines 581-588.
requiredBalance(rentExemption, solAmountToBuy) ==
  rentExemption + solAmountToBuy + pumpfunFee(solAmountToBuy)
    + TRANSACTION_FEE_BUFFER

\* What line 575 can draw, MIN + Math.random() * (MAX - MIN), in steps of a
\* tenth of a SOL; Math.random() is below 1.
SolAmounts ==
  {a \in {MIN_SOL_AMOUNT_TO_BUY + k * (LAMPORTS_PER_SOL \div 10) : k \in 0 .. 10} :
     a < MAX_SOL_AMOUNT_TO_BUY}

\* What getMinimumBalanceForRentExemption(MINT_SIZE) resolves to: the rent
\* of an 82-byte account on the cluster, or nothing.
RentExemptions == {0, 1461600}

\* The balance of the previous wallet before the gate.
Unfunded(balance) ==
  [previous |-> balance, wallet |-> 0, stage |-> "start", required |-> 0]

\* initializeWallet, lines 118-139: the gate, then all of the previous
\* wallet but the fee reserve moves to the new wallet.
gate(f) ==
  IF f.previous >= minRequiredBalance /\ transferAmount(f.previous) > 0
    THEN [f EXCEPT !.stage = "admitted", !.previous = 0,
                   !.wallet = transferAmount(f.previous)]
    ELSE [f EXCEPT !.stage = "rejected"]

\* createToken, lines 574-607: the balance check on the new wallet.
fundsCheck(f, rentExemption, solAmountToBuy) ==
  LET required == requiredBalance(rentExemption, solAmountToBuy)
  IN IF f.wallet < required
       THEN [f EXCEPT !.stage = "Insufficient funds", !.required = required]
       ELSE [f EXCEPT !.stage = "funded", !.required = required]

\* ------------------------------------------------- main() of index.ts
\* One run of main before createToken has resolved.  calls holds the pending
\* calls of sellTokens: src 0 is the timer's, src n the n-th event's.
NotStarted ==
  [started |-> FALSE, someoneBought |-> FALSE, sellTimer |-> "none",
   monitoring |-> FALSE, events |-> 0, tokens |-> 0, calls |-> {},
   sells |-> 0, buys |-> 0, restarts |-> 0]

SellCall(src) == [src |-> src, pc |-> "send", tx |-> "none"]

\* Lines 329-391 past createToken: the flag, the sell timer, the monitor.
mainMonitors(x) ==
  [x EXCEPT !.started = TRUE, !.someoneBought = FALSE, !.sellTimer = "armed",
            !.monitoring = TRUE, !.tokens = 1]

\* The timer callback of lines 333-351 up to its await of sellTokens.
mainTimer(x) ==
  LET x1 == [x EXCEPT !.sellTimer = "fired"]
  IN IF ~x.someoneBought THEN [x1 EXCEPT !.calls = @ \cup {SellCall(0)}]
     ELSE x1

\* The monitor callback of lines 357-386, for a purchase by another wallet,
\* up to its await of sellTokens.
mainCallback(x) ==
  [x EXCEPT !.events = @ + 1, !.someoneBought = TRUE,
            !.sellTimer = IF @ = "armed" THEN "cleared" ELSE @,
            !.calls = @ \cup {SellCall(x.events + 1)}]

\* sellTokens reads the token balance and submits: a sell, or with no tokens
\* a buy (tokenService.ts 942-958).  A rejection is caught and logged.
mainSellSends(x, c, r) ==
  IF r = "throw" THEN [x EXCEPT !.calls = @ \ {c}]
  ELSE IF x.tokens > 0
    THEN [x EXCEPT !.sells = @ + 1,
                   !.calls = (@ \ {c}) \cup {[c EXCEPT !.pc = "confirm", !.tx = "sell"]}]
    ELSE [x EXCEPT !.buys = @ + 1,
                   !.calls = (@ \ {c}) \cup {[c EXCEPT !.pc = "confirm", !.tx = "buy"]}]

\* sellTokens resolves: endCycle, for the monitor callback stopMonitoring,
\* and setTimeout(main, 5000).
mainSellSettles(x, c, r) ==
  IF r = "throw" THEN [x EXCEPT !.calls = @ \ {c}]
  ELSE [x EXCEPT !.calls = @ \ {c},
                 !.tokens = IF c.tx = "sell" THEN 0 ELSE 1,
                 !.monitoring = IF c.src > 0 THEN FALSE ELSE @,
                 !.restarts = @ + 1]

\* ---------------------------------------------------------------- the system

Constructed(balances, answers) ==
  /\ state = "INITIALIZING" /\ cycleId = 0 /\ wallet = 0 /\ currentMint = 0
  /\ sellTimer = 0 /\ stopMonitoringFn = 0
  /\ isShuttingDown = FALSE /\ someoneBought = FALSE
  /\ isSellingTokens = FALSE
  /\ tasks = {} /\ armedTimers = {} /\ restartTimers = 0
  /\ booted = FALSE /\ exited = FALSE
  /\ isMonitoringActive = [m \in Cycles |-> FALSE]
  /\ processedSignatures = [m \in Cycles |-> {}]
  /\ subscription = [m \in Cycles |-> FALSE]
  /\ initialCheckTimeoutId = [m \in Cycles |-> FALSE]
  /\ scanTimer = [m \in Cycles |-> FALSE]
  /\ handlers = {} /\ notifs = [m \in Cycles |-> 0]
  /\ handleCalls = [m \in Cycles |-> 0]
  /\ listenerRemovals = [m \in Cycles |-> 0]
  /\ walletFiles \in {{}, {0}} /\ tokens = 0 /\ funded = walletFiles
  /\ sellLog = <<>> /\ sellTx = 0 /\ buyTx = 0
  /\ fetched = [m \in Cycles |-> [s \in Sigs |-> 0]]
  /\ delivered = [m \in Cycles |-> [s \in Sigs |-> 0]]
  /\ skipped = [m \in Cycles |-> [s \in Sigs |-> 0]]
  /\ edges = {}
  /\ initialBalance = 0 /\ ledger = NoLedger /\ chain = balances
  /\ disk = answers

\* The constructor's state with no instruction built and no transfer made.
InitWith(balances, answers) ==
  /\ Constructed(balances, answers)
  /\ instruction = Unbuilt(0)
  /\ transfer = Unsent(0, 0)
  /\ funding = Unfunded(0)
  /\ run = NotStarted

\* The constructor's state, on a chain whose balance queries all resolve to
\* MaxBalance and with a ledger directory that cannot be written: the ledger
\* is the subject of LedgerSpec.
Init == InitWith({MaxBalance}, {"writeFail"})

\* The entry point's first call of startCycle.
Boot ==
  /\ ~exited /\ ~booted
  /\ Apply(startCycle([World EXCEPT !.booted = TRUE]))

\* A restart timer fires: setTimeout(() => this.startCycle(), 5000).
RestartTimerFire ==
  /\ ~exited /\ restartTimers > 0
  /\ cycleId < MaxCycles \/ isShuttingDown
  /\ Apply(startCycle([World EXCEPT !.restartTimers = @ - 1]))

InitializeWalletStep ==
  \E t \in tasks : \E r \in Outcomes(t.pc) : \E b \in chain :
    /\ ~exited /\ t.kind = "cycle" /\ t.pc \in IwPcs
    /\ Apply(initializeWallet([World EXCEPT !.balance = b], t, r))

CreateNewTokenStep ==
  \E t \in tasks : \E r \in Outcomes(t.pc) :
    /\ ~exited /\ t.kind = "cycle" /\ t.pc \in CnPcs
    /\ Apply(createNewToken(World, t, r))

CreateTokenStep ==
  \E t \in tasks : \E r \in Outcomes(t.pc) :
  \E b \in chain : \E q \in RequiredBalances :
    /\ ~exited /\ t.kind = "cycle" /\ t.pc \in CtPcs
    /\ Apply(createToken([World EXCEPT !.balance = b,
                                       !.requiredBalance = q], t, r))

RetrySleepDone ==
  \E t \in tasks :
    /\ ~exited /\ t.pc = "retrySleep"
    /\ Apply(withRetryNext(World, t))

StartCycleRestart ==
  \E t \in tasks :
    /\ ~exited /\ t.pc = "sc_afterCleanup"
    /\ Apply(startCycleRestart(World, t))

\* The sell timer of cycle id fires.
SellTimerFire ==
  \E id \in armedTimers :
    /\ ~exited
    /\ Apply(handleSellTimeout([World EXCEPT !.armedTimers = @ \ {id}]))

SellAllTokensStep ==
  \E t \in tasks : \E r \in Outcomes(t.pc) :
    /\ ~exited /\ t.kind = "sell" /\ t.pc \in SaPcs
    /\ Apply(sellAllTokensResume(World, t, r))

SellTokensStep ==
  \E t \in tasks : \E r \in Outcomes(t.pc) :
    /\ ~exited /\ t.kind = "sell" /\ t.pc \in StPcs
    /\ r = "none" => tokens = 0
    /\ Apply(sellTokens(World, t, r))

BuyTokensStep ==
  \E t \in tasks : \E r \in Outcomes(t.pc) :
    /\ ~exited /\ t.kind = "sell" /\ t.pc \in BtPcs
    /\ Apply(buyTokens(World, t, r))

CalculateProfitStep ==
  \E t \in tasks : \E r \in Outcomes(t.pc) :
  \E b \in chain : \E f \in disk :
    /\ ~exited /\ t.kind = "sell" /\ t.pc \in CpPcs
    /\ f = "readFail" => ledger.exists
    /\ Apply(calculateProfit([World EXCEPT !.balance = b, !.fs = f], t, r))

SellAllTokensRestart ==
  \E t \in tasks :
    /\ ~exited /\ t.pc = "sa_afterCleanup"
    /\ Apply(sellAllTokensRestart(World, t))

\* An account-change notification reaches the listener of monitor m.
AccountChange ==
  \E m \in Cycles :
    /\ ~exited /\ subscription[m] /\ notifs[m] < MaxNotifs
    /\ Apply(onAccountChange(World, m))

InitialCheckFire ==
  \E m \in Cycles :
    /\ ~exited /\ scanTimer[m]
    /\ Apply(initialCheck(World, m))

SignaturesReturn ==
  \E h \in handlers : \E r \in {"ok", "throw"} : \E list \in SigLists :
    /\ ~exited /\ h.pc = "getSigs"
    /\ r = "throw" => list = <<>>
    /\ Apply(onSignatures(World, h, r, list))

TransactionReturn ==
  \E h \in handlers : \E r \in {"ok", "throw"} :
  \E tx \in TxResults : \E now \in Clock :
    /\ ~exited /\ h.pc = "getTx"
    /\ r = "throw" => tx = NoTx
    /\ Apply(onTransactionDetails(World, h, r, tx, now))

\* SIGINT or SIGTERM.
Signal ==
  /\ ~exited
  /\ Apply(shutdown(World))

ProcessExit ==
  \E t \in tasks :
    /\ ~exited /\ t.pc = "sd_afterCleanup"
    /\ Apply(processExit(World, t))

Next ==
  \/ Boot
  \/ RestartTimerFire
  \/ InitializeWalletStep
  \/ CreateNewTokenStep
  \/ CreateTokenStep
  \/ RetrySleepDone
  \/ StartCycleRestart
  \/ SellTimerFire
  \/ SellAllTokensStep
  \/ SellTokensStep
  \/ BuyTokensStep
  \/ CalculateProfitStep
  \/ SellAllTokensRestart
  \/ AccountChange
  \/ InitialCheckFire
  \/ SignaturesReturn
  \/ TransactionReturn
  \/ Signal
  \/ ProcessExit

Spec == Init /\ [][Next]_vars

\* createToken builds its buy instruction.
CreateTokenBuild ==
  /\ ~exited /\ instruction.fn = "none"
  /\ Apply([World EXCEPT !.instruction = buyData(@, "createToken")])

\* buyTokens builds its buy instruction.
BuyTokensBuild ==
  /\ ~exited /\ instruction.fn = "none"
  /\ Apply([World EXCEPT !.instruction = buyData(@, "buyTokens")])

\* sellTokens builds its sell instruction; with no tokens it returns at
\* line 954 before building one.
SellTokensBuild ==
  /\ ~exited /\ instruction.fn = "none" /\ ~(instruction.amount <= 0)
  /\ Apply([World EXCEPT !.instruction = sellData(@)])

\* A call of transferAllSol, first or after a failed one, runs to its end.
TransferAllSolCall ==
  \E r \in {"ok", "throw"} :
    /\ ~exited /\ transfer.result # "signature"
    /\ Apply([World EXCEPT !.transfer = transferLamports(@, r)])

\* A submitted transfer is executed if the source can pay it.
TransferLands ==
  /\ ~exited /\ transfer.sent # <<>>
  /\ Head(transfer.sent) + fee <= transfer.from
  /\ Apply([World EXCEPT !.transfer = landed(@)])

\* The instruction builders on every amount a u64 can hold.
BuildInit ==
  /\ Constructed({MaxBalance}, {"writeFail"})
  /\ instruction \in {Unbuilt(amount) : amount \in 0 .. MaxU64}
  /\ transfer = Unsent(0, 0)
  /\ funding = Unfunded(0)
  /\ run = NotStarted

BuildNext ==
  \/ CreateTokenBuild
  \/ BuyTokensBuild
  \/ SellTokensBuild

BuildSpec == BuildInit /\ [][BuildNext]_vars

\* transferAllSol on every pair of balances up to MaxLamports and
\* MaxBalance.
TransferInit ==
  /\ Constructed({MaxBalance}, {"writeFail"})
  /\ instruction = Unbuilt(0)
  /\ transfer \in {Unsent(from, to) :
                     from \in 0 .. MaxLamports, to \in 0 .. MaxBalance}
  /\ funding = Unfunded(0)
  /\ run = NotStarted

TransferNext ==
  \/ TransferAllSolCall
  \/ TransferLands

TransferSpec == TransferInit /\ [][TransferNext]_vars

\* The balance gate of initializeWallet on the previous wallet.
FundingGate ==
  /\ ~exited /\ funding.stage = "start"
  /\ Apply([World EXCEPT !.funding = gate(@)])

\* The balance check of createToken on the wallet the gate admitted.
FundingCheck ==
  \E rentExemption \in RentExemptions : \E solAmountToBuy \in SolAmounts :
    /\ ~exited /\ funding.stage = "admitted"
    /\ Apply([World EXCEPT
                !.funding = fundsCheck(@, rentExemption, solAmountToBuy)])

\* A cycle's funding on every balance of the previous wallet up to
\* MaxFunding tenths of a SOL.
FundingInit ==
  /\ Constructed({MaxBalance}, {"writeFail"})
  /\ instruction = Unbuilt(0)
  /\ transfer = Unsent(0, 0)
  /\ funding \in {Unfunded(k * (LAMPORTS_PER_SOL \div 10)) : k \in 0 .. MaxFunding}
  /\ run = NotStarted

FundingNext ==
  \/ FundingGate
  \/ FundingCheck

FundingSpec == FundingInit /\ [][FundingNext]_vars

\* main() reaches its monitoring phase.
MainMonitors ==
  /\ ~exited /\ ~run.started
  /\ Apply([World EXCEPT !.run = mainMonitors(@)])

MainTimerFire ==
  /\ ~exited /\ run.sellTimer = "armed"
  /\ Apply([World EXCEPT !.run = mainTimer(@)])

\* The monitor delivers a purchase by another wallet.
MainPurchaseEvent ==
  /\ ~exited /\ run.monitoring /\ run.events < MaxEvents
  /\ Apply([World EXCEPT !.run = mainCallback(@)])

MainSellSends ==
  \E c \in run.calls : \E r \in {"ok", "throw"} :
    /\ ~exited /\ c.pc = "send"
    /\ Apply([World EXCEPT !.run = mainSellSends(@, c, r)])

MainSellSettles ==
  \E c \in run.calls : \E r \in {"ok", "throw"} :
    /\ ~exited /\ c.pc = "confirm"
    /\ Apply([World EXCEPT !.run = mainSellSettles(@, c, r)])

MainNext ==
  \/ MainMonitors
  \/ MainTimerFire
  \/ MainPurchaseEvent
  \/ MainSellSends
  \/ MainSellSettles

\* One run of the standalone main() of index.ts.
MainSpec == Init /\ [][MainNext]_vars

\* An armed setTimeout fires once the event loop is free.
FairSpec == Spec /\ WF_vars(SellTimerFire)

\* The bot on a chain whose balance queries resolve to any balance up to
\* MaxBalance, with no activity on the mint: the monitor reports nothing and
\* every cycle that monitors is liquidated by its timer.
LedgerInit == InitWith(0..MaxBalance, FsOutcomes)

LedgerNext ==
  \/ Boot
  \/ RestartTimerFire
  \/ InitializeWalletStep
  \/ CreateNewTokenStep
  \/ CreateTokenStep
  \/ RetrySleepDone
  \/ StartCycleRestart
  \/ SellTimerFire
  \/ SellAllTokensStep
  \/ SellTokensStep
  \/ BuyTokensStep
  \/ CalculateProfitStep
  \/ SellAllTokensRestart
  \/ Signal
  \/ ProcessExit

LedgerSpec == LedgerInit /\ [][LedgerNext]_vars

\* SIGINT or SIGTERM with a listener that throws during cleanup.
SignalCleanupThrows ==
  \E event \in {"stateChange", "cycleEnd"} : \E handled \in BOOLEAN :
    /\ ~exited /\ ~isShuttingDown
    /\ Apply(shutdownThrows(World, event, handled))

\* The bot of LedgerSpec with listeners that can throw during the cleanup of
\* shutdown; the continuation of an `await this.cleanup()` that resolved
\* runs.
ShutdownErrorNext ==
  \/ LedgerNext
  \/ SignalCleanupThrows

ShutdownErrorSpec ==
  LedgerInit /\ [][ShutdownErrorNext]_vars /\ WF_vars(ProcessExit)

\* The holder of a cancel handle that was called before calls it again.
StopMonitoringAgain ==
  \E m \in Cycles :
    /\ ~exited /\ handleCalls[m] \in 1 .. MaxCalls - 1
    /\ Apply(stopMonitoring(World, m))

\* The bot without shutdown, with cancel handles called again.
CancelNext ==
  \/ Boot
  \/ RestartTimerFire
  \/ InitializeWalletStep
  \/ CreateNewTokenStep
  \/ CreateTokenStep
  \/ RetrySleepDone
  \/ StartCycleRestart
  \/ SellTimerFire
  \/ SellAllTokensStep
  \/ SellTokensStep
  \/ BuyTokensStep
  \/ CalculateProfitStep
  \/ SellAllTokensRestart
  \/ AccountChange
  \/ InitialCheckFire
  \/ SignaturesReturn
  \/ TransactionReturn
  \/ StopMonitoringAgain

CancelSpec == Init /\ [][CancelNext]_vars

\* The continuation of `await this.cleanup()` in shutdown runs once the
\* promise has resolved.
ShutdownSpec == Spec /\ WF_vars(ProcessExit)

\* Every call that withRetry awaits settles, and its sleep timer fires.
RetrySpec ==
  /\ LedgerSpec
  /\ WF_vars(InitializeWalletStep) /\ WF_vars(CreateTokenStep)
  /\ WF_vars(SellTokensStep) /\ WF_vars(BuyTokensStep)
  /\ WF_vars(RetrySleepDone)

\* ------------------------------------------------------------------- claims

\* Calls of sellAllTokens in the current cycle.
Log == {sellLog[i] : i \in DOMAIN sellLog}
EnteredCalls == {i \in DOMAIN sellLog : sellLog[i].entered}

\* The calls in progress: startCycle up to its end, sellAllTokens up to its end.
InProgress == {t \in tasks : t.kind \in {"cycle", "sell"}}

\* The timer fired first and a purchase callback came after it.
BothFired == Entered("timeout") \in Log /\ Refused("external_buy") \in Log

\* The sell task once withRetry(sellTokens) has returned.
AfterSell == {"sa_balanceAfter", "cp_balance", "sa_afterCleanup"}

\* C1: in every cycle, whatever the order of the timer firing and the
\* purchase callbacks, the body of sellAllTokens past its guard is entered at
\* most once, and at most one call of sellAllTokens is in progress.
C1_SingleFlight ==
  /\ Cardinality(EnteredCalls) <= 1
  /\ Cardinality({t \in tasks : t.kind = "sell"}) <= 1

\* The timer entered the body and a purchase callback was turned away.
C1_Witness ==
  /\ BothFired
  /\ Cardinality(EnteredCalls) = 1
  /\ isSellingTokens

\* C2 as stated: when the timer and a purchase callback both fired and the
\* token balance was read as non-zero, exactly one sell transaction has been
\* submitted once the sale has returned.
C2_ExactlyOneSell ==
  \A t \in tasks :
    (BothFired /\ t.kind = "sell" /\ t.fn = "sellTokens" /\ t.pc \in AfterSell)
      => sellTx = 1

\* C2 amended: when the timer and a purchase callback both fired and the
\* token balance was read as non-zero, the sale runs under one withRetry call
\* which submits at most retryAttempts sell transactions, and exactly one when
\* its first attempt returns.
C2_BoundedSell ==
  BothFired =>
    /\ sellTx <= retryAttempts
    /\ \A t \in tasks :
         (t.kind = "sell" /\ t.fn = "sellTokens" /\ t.pc \in AfterSell
            /\ t.attempt = 1) => sellTx = 1

\* Both fired, and the first attempt of the sale returned.
C2_Witness ==
  /\ BothFired
  /\ \E t \in tasks :
       /\ t.kind = "sell" /\ t.fn = "sellTokens" /\ t.pc \in AfterSell
       /\ t.attempt = 1 /\ sellTx = 1

\* C3 as stated: while no shutdown is requested, the bot is never left with
\* no cycle running, no sell timer armed and no restart scheduled.
C3_NoStall ==
  (booted /\ ~isShuttingDown /\ ~exited) =>
    (InProgress # {} \/ armedTimers # {} \/ restartTimers > 0)

\* C4: within one monitor's lifetime every signature is fetched at most once
\* and handed to the callback at most once, whichever channels report it.
C4_OncePerSignature ==
  \A m \in Cycles : \A sig \in Sigs :
    fetched[m][sig] <= 1 /\ delivered[m][sig] <= 1

\* A signature was fetched and delivered through one channel and skipped when
\* another channel reported it again.
C4_Witness ==
  \E m \in Cycles : \E sig \in Sigs :
    fetched[m][sig] = 1 /\ delivered[m][sig] = 1 /\ skipped[m][sig] = 1

\* C5: in MONITORING with the latch unset the sell timer is armed; when it
\* fires the latch is set and liquidation starts with reason 'timeout'; and
\* it does fire unless a purchase event liquidates first or shutdown is
\* requested.
C5_TimeoutSells ==
  /\ [][(state = "MONITORING" /\ ~isSellingTokens) =>
          /\ sellTimer \in armedTimers
          /\ SellTimerFire =>
               /\ isSellingTokens' /\ state' = "SELLING"
               /\ Entered("timeout") \in {sellLog'[i] : i \in DOMAIN sellLog'}
               /\ \E t \in tasks' : t.kind = "sell" /\ t.reason = "timeout"
                                      /\ t.cyc = cycleId]_vars
  /\ (state = "MONITORING" /\ ~isSellingTokens) ~>
       \/ Entered("timeout") \in Log
       \/ Entered("external_buy") \in Log
       \/ isShuttingDown

\* Liquidation started by the timer is at its first await.
C5_Witness ==
  /\ state = "SELLING" /\ isSellingTokens
  /\ sellLog = <<Entered("timeout")>>
  /\ \E t \in tasks : t.kind = "sell" /\ t.reason = "timeout"
                        /\ t.pc = "sa_balanceBefore"

\* A handler delivers transaction tx, with the clock at now, to the callback.
Delivery(h, tx, now) ==
  /\ ~exited /\ h.pc = "getTx" /\ delivers(tx)
  /\ h \notin handlers'
  /\ Apply(onTransactionDetails(World, h, "ok", tx, now))

FreshDelivery ==
  \E h \in handlers : \E tx \in TxResults : \E now \in Clock :
    /\ TransactionAge(now, EventTimestamp(tx, now)) <= maxTransactionAge
    /\ Delivery(h, tx, now)

StaleDelivery ==
  \E h \in handlers : \E tx \in TxResults : \E now \in Clock :
    /\ TransactionAge(now, EventTimestamp(tx, now)) > maxTransactionAge
    /\ Delivery(h, tx, now)

\* C6: in MONITORING a purchase event of age at most maxTransactionAge starts
\* liquidation with reason 'external_buy' and cancels the sell timer in the
\* same step; while the latch is set no sell timer is armed, and the timer
\* starts no liquidation in a cycle a purchase event liquidated.
C6_ExternalBuySells ==
  [][/\ (state = "MONITORING" /\ FreshDelivery) =>
          /\ isSellingTokens' /\ state' = "SELLING"
          /\ Entered("external_buy") \in {sellLog'[i] : i \in DOMAIN sellLog'}
          /\ \E t \in tasks' : t.kind = "sell" /\ t.reason = "external_buy"
          /\ sellTimer' = 0 /\ armedTimers' = {}
     /\ isSellingTokens' => armedTimers' = {}
     /\ Entered("external_buy") \in Log =>
          Entered("timeout") \notin {sellLog'[i] : i \in DOMAIN sellLog'}]_vars

\* Liquidation started by a purchase event, the timer cancelled.
C6_Witness ==
  /\ state = "SELLING" /\ isSellingTokens
  /\ Entered("external_buy") \in Log
  /\ sellTimer = 0 /\ armedTimers = {}
  /\ \E t \in tasks : t.kind = "sell" /\ t.reason = "external_buy"

\* C7: an event older than maxTransactionAge changes nothing in the cycle:
\* state, latch, timer, monitor subscription and calls in progress stay as
\* they are.
C7_StaleEventIgnored ==
  [][StaleDelivery =>
       UNCHANGED <<state, isSellingTokens, someoneBought, sellTimer,
                   armedTimers, stopMonitoringFn, isMonitoringActive,
                   subscription, tasks, restartTimers, sellLog, sellTx,
                   buyTx, tokens, cycleId, wallet, currentMint>>]_vars

\* An event was delivered by the cycle's monitor and the cycle is monitoring
\* as before: latch unset, timer armed, monitor subscribed.
C7_Witness ==
  /\ state = "MONITORING" /\ ~isSellingTokens /\ ~someoneBought
  /\ sellTimer \in armedTimers
  /\ stopMonitoringFn # 0
  /\ subscription[stopMonitoringFn] /\ isMonitoringActive[stopMonitoringFn]
  /\ \E sig \in Sigs : delivered[stopMonitoringFn][sig] = 1

\* C8: while a cycle is INITIALIZING no sell timer is armed and no monitor
\* is active, subscribed or about to scan.
C8_CleanStart ==
  state = "INITIALIZING" =>
    /\ armedTimers = {} /\ sellTimer = 0 /\ stopMonitoringFn = 0
    /\ \A m \in Cycles :
         ~isMonitoringActive[m] /\ ~subscription[m] /\ ~scanTimer[m]

\* A second cycle is INITIALIZING after a cycle that monitored its token.
C8_Witness ==
  /\ state = "INITIALIZING" /\ cycleId = 2 /\ currentMint = 1
  /\ InProgress # {}

\* C9: at most one cycle is in progress: one startCycle or sellAllTokens call
\* at a time, belonging to the current cycle; a sell timer is armed only
\* between such calls; at most one restart is scheduled, and only after the
\* cycle's calls ended and cleanup cancelled its timer and monitor.
C9_OneCycle ==
  /\ Cardinality(InProgress) <= 1
  /\ \A t \in InProgress : t.cyc = cycleId
  /\ Cardinality(armedTimers) <= 1
  /\ InProgress # {} => armedTimers = {}
  /\ restartTimers <= 1
  /\ restartTimers = 1 =>
       /\ InProgress = {} /\ armedTimers = {}
       /\ sellTimer = 0 /\ stopMonitoringFn = 0
       /\ \A m \in Cycles : ~isMonitoringActive[m] /\ ~subscription[m]

\* A restart is scheduled after a cycle that sold its tokens.
C9_Witness ==
  /\ restartTimers = 1 /\ InProgress = {} /\ ~isShuttingDown
  /\ Entered("timeout") \in Log

\* C10: once isShuttingDown is set it stays set, no cycle starts or enters
\* INITIALIZING, and no restart is scheduled.
C10_ShutdownIsFinal ==
  [][isShuttingDown =>
       /\ isShuttingDown'
       /\ cycleId' = cycleId
       /\ state' = "INITIALIZING" => state = "INITIALIZING"
       /\ restartTimers' <= restartTimers
       /\ \A t \in tasks' : t.kind = "cycle" =>
            \E u \in tasks : u.kind = "cycle" /\ u.cyc = t.cyc]_vars

\* The flag is set while a restart timer scheduled before it is pending.
C10_Witness ==
  isShuttingDown /\ ~exited /\ restartTimers = 1

\* C11: the first termination signal, in whatever state, sets the shutdown
\* flag and in the same step cancels the armed sell timer and the live
\* monitor through cleanup; the process then exits; a further signal while
\* shutting down changes nothing.
C11_SignalShutsDown ==
  /\ [][(~isShuttingDown /\ isShuttingDown') =>
          /\ state' = "CLEANING_UP"
          /\ sellTimer' = 0 /\ armedTimers' = {} /\ stopMonitoringFn' = 0
          /\ \A m \in Cycles :
               ~isMonitoringActive'[m] /\ ~subscription'[m] /\ ~scanTimer'[m]
          /\ \E t \in tasks' : t.kind = "shutdown"]_vars
  /\ [](isShuttingDown => shutdown(World) = World)
  /\ isShuttingDown ~> exited

\* The process exited after a signal that came while the cycle was
\* monitoring its token: timer and monitor are cancelled.
C11_Witness ==
  /\ exited /\ isShuttingDown
  /\ cycleId > 0 /\ currentMint = cycleId /\ sellLog = <<>>
  /\ armedTimers = {} /\ sellTimer = 0 /\ stopMonitoringFn = 0
  /\ \A m \in Cycles : ~isMonitoringActive[m] /\ ~subscription[m]

\* The edges of the cycle's state machine.
CycleEdges ==
  {<<"INITIALIZING", "CREATING_TOKEN">>, <<"CREATING_TOKEN", "MONITORING">>,
   <<"MONITORING", "SELLING">>, <<"SELLING", "CALCULATING_PROFIT">>,
   <<"CALCULATING_PROFIT", "CLEANING_UP">>, <<"CLEANING_UP", "INITIALIZING">>}
    \cup {<<s, "ERROR">> : s \in BotState}
    \cup {<<"ERROR", "CLEANING_UP">>}

\* C12 as stated, for the steps taken while no shutdown is requested: every
\* change of status.state follows an edge of the cycle's state machine.
C12_OnlyCycleEdges == ~isShuttingDown => edges \subseteq CycleEdges

\* The entries of the ledger, and those written by cycle c.
Entries == {ledger.cycles[i] : i \in DOMAIN ledger.cycles}
EntriesOf(c) == {i \in DOMAIN ledger.cycles : ledger.cycles[i].cycleId = c}

RECURSIVE SumProfits(_)
SumProfits(cycles) ==
  IF cycles = <<>> THEN 0
  ELSE cycles[1].profit + SumProfits(Tail(cycles))

\* C13: every entry of the ledger has profit = finalBalance - initialBalance
\* over the balances stored with it, and the entry of the current cycle
\* stores the balance recorded at the end of INITIALIZING.
C13_ProfitIsDifference ==
  \A e \in Entries :
    /\ e.profit = e.finalBalance - e.initialBalance
    /\ e.cycleId = cycleId => e.initialBalance = initialBalance

\* A cycle that began with balance 2 and ended with balance 1 recorded a
\* loss of 1.
C13_Witness ==
  \E e \in Entries :
    /\ e.cycleId = cycleId /\ e.initialBalance = MaxBalance
    /\ e.finalBalance = MaxBalance - 1 /\ e.profit = -1

\* C14: the total stored in the ledger, and the total getTotalProfit reports,
\* is the sum of the profits of the entries.
C14_TotalIsSum ==
  /\ ledger.totalProfit = SumProfits(ledger.cycles)
  /\ getTotalProfit(ledger).totalProfit = SumProfits(ledger.cycles)
  /\ getTotalProfit(ledger).cycleCount = Len(ledger.cycles)

\* Two cycles recorded a loss and a gain of different size.
C14_Witness ==
  /\ Len(ledger.cycles) = 2
  /\ ledger.cycles[1].profit < 0 /\ ledger.cycles[2].profit > 0
  /\ ledger.totalProfit # 0

\* calculateProfit reads the final balance and the ledger is written.
AccountingDone ==
  \E t \in tasks : \E b \in chain : \E f \in disk \ {"writeFail"} :
    /\ ~exited /\ t.kind = "sell" /\ t.pc \in CpPcs
    /\ f = "readFail" => ledger.exists
    /\ Apply(calculateProfit([World EXCEPT !.balance = b, !.fs = f], t, "ok"))

\* C15 as stated: a cycle whose liquidation completed without error has
\* exactly one entry in the ledger.
C15_EntryAfterLiquidation ==
  \A t \in tasks :
    (t.kind = "sell" /\ t.pc = "sa_afterCleanup")
      => Cardinality(EntriesOf(t.cyc)) = 1

\* C15 amended: every cycle has at most one entry; a cycle that has not
\* started liquidation has none; and a cycle has exactly one once
\* calculateProfit has read the final balance and the ledger was written,
\* whether or not the profit is suspicious.
C15_OneEntryPerCycle ==
  /\ [](\A c \in Cycles : Cardinality(EntriesOf(c)) <= 1)
  /\ [](EnteredCalls = {} => EntriesOf(cycleId) = {})
  /\ [][AccountingDone => Cardinality(EntriesOf(cycleId)') = 1]_vars

\* The current cycle recorded its one entry with a suspicious profit.
C15_Witness ==
  \E e \in Entries :
    /\ e.cycleId = cycleId /\ Cardinality(EntriesOf(cycleId)) = 1
    /\ Suspicious(e.profit, e.initialBalance) /\ e.initialBalance > 0

\* C16 as stated, the part about the earlier entries: whenever the ledger
\* changes, the entries it held are still there, unchanged and in the same
\* order, followed by one new entry.
C16_AppendOnly ==
  [][ledger' # ledger =>
       /\ Len(ledger'.cycles) = Len(ledger.cycles) + 1
       /\ SubSeq(ledger'.cycles, 1, Len(ledger.cycles)) = ledger.cycles]_vars

\* The previous wallet's balance resolves to b in initializeWallet.
PreviousBalance(b) ==
  \E t \in tasks :
    /\ ~exited /\ t.kind = "cycle" /\ t.pc = "iw_prevBalance"
    /\ Apply(initializeWallet([World EXCEPT !.balance = b], t, "ok"))

\* The last attempt of the transfer rejects.
TransferFails ==
  \E t \in tasks :
    /\ ~exited /\ t.kind = "cycle" /\ t.pc = "iw_transfer"
    /\ t.attempt = retryAttempts
    /\ Apply(initializeWallet(World, t, "throw"))

\* A call of transferAllSol is in progress, or its transaction is awaited.
Transferring == \E t \in tasks : t.pc \in {"iw_transfer", "iw_settle"}

TransferRetried ==
  \E t \in tasks : t.pc = "retrySleep" /\ t.fn = "transferAllSol"

\* The running cycle is in startCycle's catch: it went through ERROR, no
\* part of its initialisation or token creation is pending.
CycleFailed ==
  /\ \E e \in edges : e[2] = "ERROR"
  /\ state = "CLEANING_UP"
  /\ \A t \in tasks : t.kind = "cycle" => t.pc = "sc_afterCleanup"

\* C17: in INITIALIZING a transfer is started only after the previous
\* wallet's balance resolved to at least the funding threshold, and only
\* when an earlier wallet file exists; a cycle started with no earlier
\* wallet, a balance under the threshold, or a transfer whose last attempt
\* rejects, goes to ERROR; CREATING_TOKEN is entered only from the end of a
\* completed initialisation.
C17_FundedOrError ==
  /\ [](Transferring => walletFiles \ {cycleId} # {})
  /\ [][/\ Transferring' =>
            \/ Transferring \/ TransferRetried
            \/ \E b \in chain :
                 b >= calculateMinRequiredBalance /\ PreviousBalance(b)
        /\ \A b \in chain : PreviousBalance(b) =>
             IF b >= calculateMinRequiredBalance
               THEN \E t \in tasks' : t.pc = "iw_transfer" /\ t.attempt = 1
               ELSE CycleFailed' /\ ~Transferring'
        /\ walletFiles = {} /\ cycleId' # cycleId => CycleFailed'
        /\ TransferFails => CycleFailed'
        /\ state' = "CREATING_TOKEN" /\ state # "CREATING_TOKEN" =>
             \E t \in tasks : t.pc = "iw_settle"]_vars

\* A first cycle found no earlier wallet and failed; the second cycle,
\* started beside the first one's wallet file, failed as well.
C17_Witness ==
  /\ cycleId = 2 /\ walletFiles = {1, 2} /\ CycleFailed
  /\ chain = 0 .. MaxBalance

\* createToken's queries resolve: the payer holds b, the creation needs q.
Preflight(b, q) ==
  \E t \in tasks :
    /\ ~exited /\ t.kind = "cycle" /\ t.pc = "ct_preflight"
    /\ Apply(createToken([World EXCEPT !.balance = b,
                                       !.requiredBalance = q], t, "ok"))

\* The creation transaction is signed and handed to sendRawTransaction, or
\* its confirmation is awaited.
Submitting == \E t \in tasks : t.pc \in {"ct_send", "ct_confirm"}

\* createToken threw into withRetry: a retry is scheduled, or the error went
\* on to startCycle's catch.
CreateTokenThrew ==
  \/ \E t \in tasks : t.pc = "retrySleep" /\ t.fn = "createToken"
  \/ CycleFailed

\* C18: when the payer's balance is below the required funding createToken
\* throws with nothing signed, submitted or created; with a sufficient
\* balance it goes on to submit; and a submission only ever follows a
\* balance check that passed.
C18_FundsCheckedFirst ==
  [][/\ \A b \in chain : \A q \in RequiredBalances : Preflight(b, q) =>
          IF b < q
            THEN CreateTokenThrew' /\ ~Submitting' /\ tokens' = tokens
            ELSE \E t \in tasks' : t.pc = "ct_send"
     /\ Submitting' =>
          \/ Submitting
          \/ \E b \in chain : \E q \in RequiredBalances :
               b >= q /\ Preflight(b, q)]_vars

\* A creation is being submitted on a chain where balance queries may
\* resolve under the required funding, after a first attempt that threw.
C18_Witness ==
  /\ chain = 0 .. MaxBalance
  /\ \E t \in tasks : t.pc = "ct_send" /\ t.attempt = 2

\* createToken finds an account of the mint already there.
AccountsExist ==
  \E t \in tasks :
    /\ ~exited /\ t.kind = "cycle" /\ t.pc = "ct_preflight"
    /\ Apply(createToken(World, t, "exists"))

\* C19 as stated: when createToken throws for insufficient funds or because
\* an account already exists, the error goes straight to startCycle's catch
\* (ERROR) and createToken is not invoked again in that cycle.
C19_RejectionNotRetried ==
  [][(\/ AccountsExist
      \/ \E b \in chain : \E q \in RequiredBalances :
           b < q /\ Preflight(b, q))
     => /\ CycleFailed'
        /\ \A t \in tasks' : t.fn # "createToken"]_vars

\* The suspensions inside a call of fn made by withRetry, and inside
\* withRetry itself.
CallPcs == {"iw_prevBalance", "iw_transfer"} \cup CtPcs \cup StPcs \cup BtPcs
RetryPcs == CallPcs \cup {"retrySleep"}

\* The same asynchronous call in two states.
SameCall(t, u) == t.kind = u.kind /\ t.cyc = u.cyc

\* The awaited call of task t rejects.
Rejects(t) ==
  /\ ~exited /\ t.pc \in CallPcs
  /\ Apply(CASE t.pc \in IwPcs -> initializeWallet(World, t, "throw")
            [] t.pc \in CtPcs -> createToken(World, t, "throw")
            [] t.pc \in StPcs -> sellTokens(World, t, "throw")
            [] t.pc \in BtPcs -> buyTokens(World, t, "throw"))

\* withRetry of kind k in cycle c is running.
Retrying(k, c) ==
  \E t \in tasks : t.kind = k /\ t.cyc = c /\ t.pc \in RetryPcs

\* C20: withRetry starts with a first call of fn; attempts are numbered 1 to
\* maxAttempts and the number only grows, by one, at a new call of fn after
\* the sleep that follows a failure; a rejection before the last attempt
\* leads to that sleep and a rejection of the last attempt is rethrown to
\* the caller in the same step; once withRetry has returned, fn is not
\* called again; and every withRetry comes to an end.
C20_WithRetryTerminates ==
  /\ [](\A t \in tasks : t.attempt \in 1 .. retryAttempts)
  /\ [][\A u \in tasks' :
          /\ (/\ u.pc \in RetryPcs
              /\ \A t \in tasks :
                   ~(SameCall(t, u) /\ t.pc \in RetryPcs /\ t.fn = u.fn))
             => (/\ u.attempt = 1 /\ u.pc = FirstPc(u.fn)
                 /\ \A t \in tasks : SameCall(t, u) => t.fn # u.fn)
          /\ \A t \in tasks :
               (SameCall(t, u) /\ t.fn = u.fn /\ t.attempt # u.attempt)
               => (/\ t.pc = "retrySleep" /\ u.attempt = t.attempt + 1
                   /\ u.pc = FirstPc(u.fn))
          /\ \A t \in tasks :
               (SameCall(t, u) /\ t.pc = "retrySleep")
               => u.pc \in {"retrySleep", FirstPc(t.fn)}]_vars
  /\ [][\A t \in tasks : Rejects(t) =>
          IF t.attempt < retryAttempts
            THEN \E u \in tasks' :
                   /\ SameCall(t, u) /\ u.pc = "retrySleep"
                   /\ u.fn = t.fn /\ u.attempt = t.attempt
            ELSE IF t.kind = "cycle"
              THEN \E u \in tasks' : SameCall(t, u) /\ u.pc = "sc_afterCleanup"
              ELSE ~\E u \in tasks' : SameCall(t, u)]_vars
  /\ \A k \in {"cycle", "sell"} : \A c \in Cycles :
       Retrying(k, c) ~> (exited \/ ~Retrying(k, c))

\* createToken has failed on every attempt and startCycle's catch is
\* running with the rethrown error.
C20_Witness ==
  /\ ~isShuttingDown
  /\ \E t \in tasks :
       /\ t.pc = "sc_afterCleanup" /\ t.fn = "createToken"
       /\ t.attempt = retryAttempts

\* C21 as stated: whenever a cycle has picked its funding source and the bot
\* has funds to carry over, the wallet picked (the newest wallet file other
\* than the one just created) is the one wallet that holds them.
C21_PreviousWalletIsFunded ==
  \A t \in tasks :
    t.kind = "cycle" /\ t.pc \in {"iw_prevBalance", "iw_transfer"}
                    /\ funded # {}
    => funded = {previousWallet(World, t)}

\* The token balance query of sellAllTokens answers zero: the wallet holds
\* no token, or getTokenBalance caught an error and returned 0.
ZeroBalance ==
  \E t \in tasks : \E r \in Outcomes(t.pc) :
    /\ ~exited /\ t.kind = "sell" /\ t.pc = "sa_tokenBalance"
    /\ r = "ok" => tokens = 0
    /\ Apply(sellAllTokensResume(World, t, r))

\* A call of sellAllTokens that found nothing to sell and went on.
NothingSold(t) ==
  /\ t.kind = "sell" /\ t.fn = "none"
  /\ t.pc \in {"cp_balance", "sa_afterCleanup"}

\* C22: when the token balance query answers zero, sellAllTokens submits
\* nothing and goes to CALCULATING_PROFIT; from there the call goes through
\* cleanup and arms the restart timer (unless the bot is shutting down),
\* without ERROR and without any sell or buy transaction in that cycle.
C22_NothingToSell ==
  /\ [](\A t \in tasks :
         NothingSold(t) /\ t.cyc = cycleId => sellTx = 0 /\ buyTx = 0)
  /\ [][/\ ZeroBalance =>
            /\ edges' = {<<state, "CALCULATING_PROFIT">>}
            /\ sellTx' = sellTx /\ buyTx' = buyTx
            /\ \E u \in tasks' : NothingSold(u) /\ u.pc = "cp_balance"
        /\ \A t \in tasks : NothingSold(t) /\ t \notin tasks' =>
             /\ \A e \in edges' : e[2] # "ERROR"
             /\ IF t.pc = "cp_balance"
                  THEN /\ state' = "CLEANING_UP"
                       /\ \E u \in tasks' :
                            NothingSold(u) /\ u.pc = "sa_afterCleanup"
                  ELSE isShuttingDown
                       \/ restartTimers' = restartTimers + 1]_vars

\* A call of sellAllTokens found nothing to sell and has come to its end,
\* about to arm the restart timer.
C22_Witness ==
  /\ ~isShuttingDown
  /\ \E t \in tasks : NothingSold(t) /\ t.pc = "sa_afterCleanup"

\* A handler is resumed with transaction tx, the clock at now.
Returned(h, tx, now) ==
  /\ ~exited /\ h.pc = "getTx"
  /\ h \notin handlers'
  /\ Apply(onTransactionDetails(World, h, "ok", tx, now))

\* C23 as stated: a transaction whose settlement carries an execution error
\* is not classified as a purchase by the handler that receives it, and is
\* not delivered to the callback.
C23_FailedTxNotDelivered ==
  [][\A h \in handlers : \A tx \in TxResults : \A now \in Clock :
       tx.err /\ Returned(h, tx, now)
       => ~isBuyTransaction(tx) /\ ~Delivery(h, tx, now)]_vars

\* C24 as stated: a transaction that a handler classifies as a purchase has
\* a positive token-balance delta for the mint or an instruction that starts
\* with the buy discriminator.
C24_PurchaseHasEvidence ==
  [][\A h \in handlers : \A tx \in TxResults : \A now \in Clock :
       Returned(h, tx, now) /\ isBuyTransaction(tx)
       => tx.tokenDelta \/ tx.buyDisc]_vars

\* C25: a transaction that does not name the mint, or whose first account
\* key is the wallet of the cycle, is not classified as a purchase; the
\* handler that receives it delivers nothing and no liquidation starts.
C25_OwnAndForeignIgnored ==
  /\ [](\A tx \in TxResults :
         tx.found /\ (~tx.mintInvolved \/ tx.buyerSelf)
         => ~isBuyTransaction(tx))
  /\ [][\A h \in handlers : \A tx \in TxResults : \A now \in Clock :
          tx.found /\ (~tx.mintInvolved \/ tx.buyerSelf)
                   /\ Returned(h, tx, now)
          => /\ sellLog' = sellLog /\ isSellingTokens' = isSellingTokens
             /\ \A m \in Cycles : \A sig \in Sigs :
                  delivered'[m][sig] <= delivered[m][sig]
             /\ \A t \in tasks' : t.kind = "sell" => t \in tasks]_vars

\* A monitor has fetched a transaction in MONITORING and delivered nothing;
\* no liquidation has started.
C25_Witness ==
  /\ state = "MONITORING" /\ sellLog = <<>>
  /\ \E sig \in Sigs :
       /\ fetched[cycleId][sig] = 1 /\ delivered[cycleId][sig] = 0
       /\ \A h \in handlers : h.cur # sig

\* The cancel handle of monitor m is called.
Cancelled(m) == ~exited /\ Apply(stopMonitoring(World, m))

\* C26: the call of the cancel handle that stops a monitor removes its
\* subscription (one removeAccountChangeListener), cancels the initial scan
\* if it is pending and empties the dedup set; a call of the handle of a
\* monitor already stopped removes no listener and changes nothing.
C26_CancelIsIdempotent ==
  /\ [](\A m \in Cycles : listenerRemovals[m] <= 1)
  /\ [][\A m \in Cycles :
          /\ isMonitoringActive[m] /\ ~isMonitoringActive'[m] =>
               /\ handleCalls[m] = 0 /\ handleCalls'[m] = 1
               /\ ~subscription'[m]
               /\ listenerRemovals'[m] = listenerRemovals[m] + 1
               /\ ~initialCheckTimeoutId'[m]
               /\ initialCheckTimeoutId[m] => ~scanTimer'[m]
               /\ processedSignatures'[m] = {}
          /\ handleCalls[m] > 0 /\ handleCalls'[m] > handleCalls[m] =>
               /\ Cancelled(m)
               /\ UNCHANGED <<state, cycleId, wallet, currentMint, sellTimer,
                              stopMonitoringFn, isShuttingDown, someoneBought,
                              isSellingTokens, tasks, armedTimers,
                              restartTimers, booted, exited,
                              isMonitoringActive, processedSignatures,
                              subscription, initialCheckTimeoutId, scanTimer,
                              handlers, notifs, listenerRemovals,
                              walletFiles, tokens, funded, sellLog, sellTx,
                              buyTx, fetched, delivered, skipped,
                              initialBalance, ledger, chain, disk,
                              instruction, transfer, funding, run>>]_vars

\* The handle of a stopped monitor has been called a second time, with one
\* listener removal.
C26_Witness ==
  \E m \in Cycles :
    /\ handleCalls[m] = 2 /\ listenerRemovals[m] = 1
    /\ ~isMonitoringActive[m] /\ ~subscription[m]

\* The confirmation awaited by task t resolves with an execution error in
\* its value.
ConfirmedWithError(t) ==
  /\ ~exited /\ t.pc \in {"ct_confirm", "st_confirm", "bt_confirm"}
  /\ Apply(CASE t.pc = "ct_confirm" -> createToken(World, t, "err")
            [] t.pc = "st_confirm" -> sellTokens(World, t, "err")
            [] t.pc = "bt_confirm" -> buyTokens(World, t, "err"))

\* C27 as stated: when the confirmation of a creation, a purchase or a sale
\* carries an execution error the call fails: withRetry sleeps before another
\* attempt or the error reaches the caller's catch; the call does not go on
\* as after a success.
C27_ExecutionErrorFails ==
  [][\A t \in tasks : ConfirmedWithError(t) =>
       \/ \E u \in tasks' : SameCall(t, u) /\ u.pc = "retrySleep"
       \/ \E u \in tasks' : SameCall(t, u) /\ u.pc = "sc_afterCleanup"
       \/ ~\E u \in tasks' : SameCall(t, u)]_vars

\* An instruction of fn was encoded; its amount and bound as written.
Built(fns) == instruction.fn \in fns /\ instruction.data # <<>>
Amount == instruction.data[2]
Bound == instruction.data[3]

\* C28 as stated: the encoded buy bound is amount + floor(amount *
\* slippageBps / 10000) and at least the amount, the encoded sell bound is at
\* most the amount, and a bound equals the amount only at zero slippage.
C28_EqualityOnlyAtZeroSlippage ==
  /\ Built({"createToken", "buyTokens"}) =>
       /\ Bound = Amount + (Amount * slippageBasisPoints) \div 10000
       /\ Bound >= Amount
       /\ Amount > 0 /\ Bound = Amount => slippageBasisPoints = 0
  /\ Built({"sellTokens"}) =>
       /\ Bound <= Amount
       /\ Bound = Amount => slippageBasisPoints = 0

\* C28: the encoded buy bound is amount + floor(amount * slippageBps / 10000)
\* and at least the amount, and equals the amount exactly when the floor is
\* zero, which happens at non-zero slippage for small amounts; the encoded
\* sell bound is at most the amount.
C28_BoundsBracketAmount ==
  /\ Built({"createToken", "buyTokens"}) =>
       /\ Bound = Amount + (Amount * slippageBasisPoints) \div 10000
       /\ Bound >= Amount
       /\ Bound = Amount <=> (Amount * slippageBasisPoints) \div 10000 = 0
  /\ Built({"sellTokens"}) => Bound <= Amount

\* buyTokens encoded a positive amount whose bound equals it, at the
\* configured slippage.
C28_Witness ==
  /\ Built({"buyTokens"}) /\ Amount > 0 /\ Bound = Amount
  /\ slippageBasisPoints > 0

\* amount - floor(amount * slippageBps / 10000).
Discounted(amount) == amount - (amount * slippageBasisPoints) \div 10000

\* C29 as stated: the sell instruction's minimum-output bound is amount -
\* floor(amount * slippageBps / 10000), or the smallest non-zero value when
\* that is not positive, and is never negative.
C29_SellBoundFollowsSlippage ==
  Built({"sellTokens"}) =>
    /\ Bound = IF Discounted(Amount) <= 0 THEN 1 ELSE Discounted(Amount)
    /\ Bound >= 0

\* The step submits a transfer.
Submitted == Len(transfer'.sent) > Len(transfer.sent)

\* C30: every transfer transferAllSol submits carries the source balance
\* less the 5000 lamports reserved for the fee; a call on a balance of at
\* most 5000 lamports throws with nothing submitted and both balances as
\* they were.
C30_TransfersBalanceLessFee ==
  [][/\ Submitted =>
          /\ transfer.from - 5000 > 0
          /\ transfer'.sent = Append(transfer.sent, transfer.from - 5000)
          /\ transfer'.result = "signature"
          /\ transfer'.from = transfer.from /\ transfer'.to = transfer.to
     /\ transfer.from - 5000 <= 0 /\ TransferAllSolCall =>
          /\ transfer'.result \in {"Insufficient balance", "rpc error"}
          /\ transfer'.sent = transfer.sent /\ transfer.sent = <<>>
          /\ transfer'.from = transfer.from /\ transfer'.to = transfer.to
     /\ transfer.from - 5000 > 0 /\ TransferAllSolCall =>
          transfer'.result \in {"signature", "rpc error"}]_vars

\* A call on a balance equal to the reserve has thrown, nothing submitted.
C30_Witness ==
  /\ transfer.result = "Insufficient balance" /\ transfer.from = fee
  /\ transfer.sent = <<>>

\* The cycle ids of the ledger's entries, in the order of the file.
EntryIds == [i \in DOMAIN ledger.cycles |-> ledger.cycles[i].cycleId]

\* C31: the cycle id changes only by one step of the logger's counter, every
\* start of a cycle (the entry point's or a restart timer's call of
\* startCycle while not shutting down) increases it by exactly one, and the
\* cycle ids of the ledger's entries are strictly increasing.
C31_CycleIdCounts ==
  /\ [][cycleId' = cycleId \/ cycleId' = cycleId + 1]_vars
  /\ [][(Boot \/ RestartTimerFire) /\ ~isShuttingDown =>
          cycleId' = cycleId + 1]_vars
  /\ [](\A i, j \in DOMAIN EntryIds : i < j => EntryIds[i] < EntryIds[j])

\* Two cycles have each appended their entry.
C31_Witness ==
  cycleId = 2 /\ Len(ledger.cycles) = 2 /\ EntryIds = <<1, 2>>

\* C32 as stated: after a termination signal the process reaches exit, also
\* when an error is raised while the cleanup of shutdown runs.
C32_ShutdownAlwaysExits == isShuttingDown ~> exited

\* C33 as stated: once a monitor's cancel handle has been called, no handler
\* of that monitor invokes the callback, including a handler that was
\* awaiting getTransaction when the handle was called.
C33_NoCallbackAfterCancel ==
  [][\A h \in handlers : \A tx \in TxResults : \A now \in Clock :
       Delivery(h, tx, now) => isMonitoringActive[h.mon]]_vars

\* C34 as stated: an event delivered by the monitor of an earlier cycle
\* starts no liquidation in the current cycle.
C34_NoCrossCycleLiquidation ==
  [][\A h \in handlers : \A tx \in TxResults : \A now \in Clock :
       (h.mon < cycleId /\ Delivery(h, tx, now)) =>
         /\ isSellingTokens' = isSellingTokens
         /\ state' = state
         /\ \A t \in tasks' : t.kind = "sell" => t \in tasks]_vars

\* The call of startCycle of the current cycle ends in its catch, arming the
\* restart timer: nothing of the cycle runs afterwards.
CycleAbandoned ==
  \E t \in tasks :
    /\ t.kind = "cycle" /\ t.pc = "sc_afterCleanup" /\ t.cyc = cycleId
    /\ t \notin tasks' /\ restartTimers' = restartTimers + 1

\* C35 as stated, at the step that ends a cycle: a cycle whose create
\* transaction landed, so that its wallet holds the token, is not given up
\* for the next cycle before it has submitted a sell, also when confirming
\* the create transaction failed or createToken was re-invoked.
C35_PositionLiquidated ==
  [][(CycleAbandoned /\ tokens = 1) => sellTx > 0]_vars

\* sellAllTokens goes from its token balance query to calculateProfit
\* without calling sellTokens ('No tokens to sell').
SaleSkipped ==
  \E t \in tasks :
    /\ t.kind = "sell" /\ t.pc = "sa_tokenBalance"
    /\ \E u \in tasks' : NothingSold(u) /\ u.pc = "cp_balance" /\ u.cyc = t.cyc

\* C36 as stated: liquidation is skipped as 'No tokens to sell' only when
\* the wallet holds no token, not when the balance query fails.
C36_SkippedOnlyWhenEmpty == [][SaleSkipped => tokens = 0]_vars

\* The fetch of the transaction of h.cur fails: getTransaction resolves to
\* null (r = "ok") or rejects (r = "throw").
FetchFailed(h, r) ==
  /\ ~exited /\ h.pc = "getTx"
  /\ h \notin handlers'
  /\ \E now \in Clock : Apply(onTransactionDetails(World, h, r, NoTx, now))

\* C37 as stated, for a signature whose first fetch fails: a signature read
\* while the monitor is active is eventually delivered also when the first
\* attempt to fetch its transaction returns nothing or throws, so after a
\* failed fetch the monitor does not count the signature as processed.
C37_FailedFetchIsRetried ==
  [][\A h \in handlers : \A r \in {"ok", "throw"} :
       (isMonitoringActive[h.mon] /\ FetchFailed(h, r)) =>
         ~alreadyProcessed(World', h.mon, h.cur)]_vars

\* C38 as stated: a call of sellTokens submits no buy and does not increase
\* the token position, whatever the account state.
C38_SellTokensOnlySells ==
  [][\A t \in tasks :
       (t.kind = "sell" /\ t.fn = "sellTokens" /\ t \notin tasks') =>
         /\ buyTx' = buyTx
         /\ tokens' <= tokens]_vars

\* C39 as stated: a cycle that the balance gate of INITIALIZING admitted
\* does not fail the balance check of createToken, whatever purchase amount
\* createToken draws.
C39_GateCoversCreation == funding.stage # "Insufficient funds"

\* C40 as stated: in one run of main() at most one sell is submitted and at
\* most one follow-up run is scheduled, for every interleaving of the sell
\* timer and the monitor callbacks.
C40_OneSaleOneRestart == run.sells <= 1 /\ run.restarts <= 1

====
